---------------------------- MODULE Spec2Model ----------------------------
(***************************************************************************)
(* A model of the iVAS SMS dashboard back end: the Express server          *)
(* (src/IVAS/server.js) and the Netlify functions                          *)
(* (src/IVAS/netlify/functions/*.js and the two handlers under             *)
(* src/unnamed/).  One request is followed from its arrival to its         *)
(* response: the cookie blob is decoded, normalised and validated, the     *)
(* portal is called, and the response is built.                            *)
(*                                                                         *)
(* Text is modelled by TLA+ strings.  A character is a string of length 1. *)
(* Printable ASCII, tab, line feed and carriage return stand for           *)
(* themselves; every other code unit (a control character, the backtick,   *)
(* a character outside ASCII) is written Other.                            *)
(***************************************************************************)
EXTENDS Integers, Sequences, FiniteSets, TLC

\* ------------------------------------------------------------------------
\* JavaScript strings
\* ------------------------------------------------------------------------

Other == "\f"

Ascii == " !\"#$%&'()*+,-./0123456789:;<=>?@ABCDEFGHIJKLMNOPQRSTUVWXYZ[\\]^_\fabcdefghijklmnopqrstuvwxyz{|}~"

\* String.prototype.charAt, 1-based: "" outside the string
CharAt(s, i) == IF i >= 1 /\ i <= Len(s) THEN SubSeq(s, i, i) ELSE ""

\* the characters i..j of s that exist
Slice(s, i, j) == SubSeq(s, IF i < 1 THEN 1 ELSE i, IF j > Len(s) THEN Len(s) ELSE j)

AsciiChars == {CharAt(Ascii, i) : i \in 1..Len(Ascii)}

CodeOf == [c \in AsciiChars |-> 31 + (CHOOSE i \in 1..Len(Ascii) : CharAt(Ascii, i) = c)]

\* String.prototype.charCodeAt for one character
charCodeAt(c) ==
    IF c = "\t" THEN 9
    ELSE IF c = "\n" THEN 10
    ELSE IF c = "\r" THEN 13
    ELSE CodeOf[c]

\* String.fromCharCode for one byte of a UTF-8 text; bytes that are not
\* printable ASCII decode to Other (TextDecoder and Buffer.toString put
\* U+FFFD or a control character there)
fromCharCode(n) ==
    IF n = 9 THEN "\t"
    ELSE IF n = 10 THEN "\n"
    ELSE IF n = 13 THEN "\r"
    ELSE IF n >= 32 /\ n <= 126 THEN CharAt(Ascii, n - 31)
    ELSE Other

WhiteSpace == {" ", "\t", "\n", "\r"}

RECURSIVE TrimStart(_)
TrimStart(s) ==
    IF Len(s) > 0 /\ CharAt(s, 1) \in WhiteSpace THEN TrimStart(SubSeq(s, 2, Len(s))) ELSE s

RECURSIVE TrimEnd(_)
TrimEnd(s) ==
    IF Len(s) > 0 /\ CharAt(s, Len(s)) \in WhiteSpace THEN TrimEnd(SubSeq(s, 1, Len(s) - 1)) ELSE s

\* String.prototype.trim
trim(s) == TrimEnd(TrimStart(s))

\* String.prototype.includes
includes(s, sub) ==
    \E i \in 1..(Len(s) - Len(sub) + 1) : SubSeq(s, i, i + Len(sub) - 1) = sub

\* String.prototype.startsWith / endsWith
startsWith(s, sub) == Len(s) >= Len(sub) /\ SubSeq(s, 1, Len(sub)) = sub

endsWith(s, sub) == Len(s) >= Len(sub) /\ SubSeq(s, Len(s) - Len(sub) + 1, Len(s)) = sub

\* the first position from i on that holds one of the characters, 0 when none
NextIndex(s, chars, i) ==
    LET found == {j \in i..Len(s) : CharAt(s, j) \in chars}
    IN  IF found = {} THEN 0 ELSE CHOOSE m \in found : \A j \in found : m <= j

\* String.prototype.indexOf for one character, 1-based, 0 when absent
indexOf(s, c) == NextIndex(s, {c}, 1)

\* String.prototype.split on one character: "" splits into <<"">>
RECURSIVE split(_, _)
split(s, sep) ==
    LET i == indexOf(s, sep)
    IN  IF i = 0 THEN <<s>>
        ELSE <<SubSeq(s, 1, i - 1)>> \o split(SubSeq(s, i + 1, Len(s)), sep)

\* Array.prototype.join
RECURSIVE join(_, _)
join(parts, sep) ==
    IF Len(parts) = 0 THEN ""
    ELSE IF Len(parts) = 1 THEN parts[1]
    ELSE parts[1] \o sep \o join(Tail(parts), sep)

\* String.prototype.substring(0, n)
substring0(s, n) == Slice(s, 1, n)

\* ------------------------------------------------------------------------
\* base64: the base64-js package (server.js) and Node's Buffer (utils.js).
\* Bytes are sequences of numbers in 0..255.
\* ------------------------------------------------------------------------

Base64Alphabet == "ABCDEFGHIJKLMNOPQRSTUVWXYZabcdefghijklmnopqrstuvwxyz0123456789+/"

Base64Chars == {CharAt(Base64Alphabet, i) : i \in 1..64}

Base64Index == [c \in Base64Chars |-> (CHOOSE i \in 1..64 : CharAt(Base64Alphabet, i) = c) - 1]

\* base64-js revLookup: the URL-safe '-' and '_' are accepted, and a character
\* outside the table reads as undefined, which the shifts turn into 0
revLookup(c) ==
    IF c \in Base64Chars THEN Base64Index[c]
    ELSE IF c = "-" THEN 62
    ELSE IF c = "_" THEN 63
    ELSE 0

\* one full group of four characters starting at (1-based) position i
GroupBytes(s, i) ==
    LET tmp == revLookup(CharAt(s, i)) * 262144 + revLookup(CharAt(s, i + 1)) * 4096
               + revLookup(CharAt(s, i + 2)) * 64 + revLookup(CharAt(s, i + 3))
    IN  <<(tmp \div 65536) % 256, (tmp \div 256) % 256, tmp % 256>>

\* for (i = 0; i < len; i += 4): the bytes of the groups that start before len
GroupsBytes(s, len) ==
    LET groups == IF len <= 0 THEN 0 ELSE (len + 3) \div 4
    IN  [k \in 1..(3 * groups) |-> GroupBytes(s, 4 * ((k - 1) \div 3) + 1)[((k - 1) % 3) + 1]]

Zeros(n) == [k \in 1..n |-> 0]

Thrown == [threw |-> TRUE]

Returned(v) == [threw |-> FALSE, v |-> v]

\* base64-js getLens: the text is cut at the first '='
ValidLen(b64) == IF indexOf(b64, "=") = 0 THEN Len(b64) ELSE indexOf(b64, "=") - 1

PlaceHoldersLen(b64, validLen) == IF validLen = Len(b64) THEN 0 ELSE 4 - (validLen % 4)

\* base64-js _byteLength
ByteLength(validLen, placeHoldersLen) == (((validLen + placeHoldersLen) * 3) \div 4) - placeHoldersLen

\* the one or two bytes of the last, padded group, which starts at position i
TailBytes(b64, i, placeHoldersLen) ==
    IF placeHoldersLen = 2
    THEN <<(revLookup(CharAt(b64, i)) * 4 + (revLookup(CharAt(b64, i + 1)) \div 16)) % 256>>
    ELSE IF placeHoldersLen = 1
    THEN <<((revLookup(CharAt(b64, i)) * 1024 + revLookup(CharAt(b64, i + 1)) * 16
             + (revLookup(CharAt(b64, i + 2)) \div 4)) \div 256) % 256,
           (revLookup(CharAt(b64, i)) * 1024 + revLookup(CharAt(b64, i + 1)) * 16
             + (revLookup(CharAt(b64, i + 2)) \div 4)) % 256>>
    ELSE << >>

\* the array of byteLength bytes: what the loops wrote, then the zeros the
\* array was allocated with
FillArray(filled, byteLength) == SubSeq(filled \o Zeros(byteLength - Len(filled)), 1, byteLength)

ToBytes(b64, validLen, placeHoldersLen, main) ==
    IF Len(b64) % 4 > 0 \/ ByteLength(validLen, placeHoldersLen) < 0 THEN Thrown
    ELSE Returned(FillArray(main \o TailBytes(b64, 4 * (Len(main) \div 3) + 1, placeHoldersLen),
                            ByteLength(validLen, placeHoldersLen)))

ToBytesFrom(b64, validLen, placeHoldersLen) ==
    ToBytes(b64, validLen, placeHoldersLen,
            GroupsBytes(b64, IF placeHoldersLen > 0 THEN validLen - 4 ELSE validLen))

ToBytesLens(b64, validLen) == ToBytesFrom(b64, validLen, PlaceHoldersLen(b64, validLen))

\* base64-js toByteArray: throws unless the length is a multiple of 4; the
\* array is allocated from the computed byte length (a negative length
\* throws) and filled group by group
toByteArray(b64) == ToBytesLens(b64, ValidLen(b64))

\* the concatenation of piece(lo), ..., piece(hi), halving the range
RECURSIVE Concat(_, _, _)
Concat(piece(_), lo, hi) ==
    IF lo > hi THEN ""
    ELSE IF lo = hi THEN piece(lo)
    ELSE Concat(piece, lo, (lo + hi) \div 2) \o Concat(piece, ((lo + hi) \div 2) + 1, hi)

\* TextDecoder('utf-8').decode and Buffer.toString('utf-8')
utf8Decode(bytes) ==
    LET piece(k) == fromCharCode(bytes[k])
    IN  Concat(piece, 1, Len(bytes))

\* Buffer.from(text, 'utf-8') of a text of ASCII characters
utf8Encode(s) == [k \in 1..Len(s) |-> charCodeAt(CharAt(s, k))]

\* the four characters that encode the bytes from position i on (at most three)
EncodeGroup(bytes, i) ==
    LET c(n) == CharAt(Base64Alphabet, n + 1)
        left == Len(bytes) - i + 1
    IN  IF left = 1 THEN
            c(bytes[i] \div 4) \o c((bytes[i] % 4) * 16) \o "=="
        ELSE IF left = 2 THEN
            c(bytes[i] \div 4) \o c((bytes[i] % 4) * 16 + (bytes[i + 1] \div 16))
            \o c((bytes[i + 1] % 16) * 4) \o "="
        ELSE
            c(bytes[i] \div 4) \o c((bytes[i] % 4) * 16 + (bytes[i + 1] \div 16))
            \o c((bytes[i + 1] % 16) * 4 + (bytes[i + 2] \div 64)) \o c(bytes[i + 2] % 64)

\* Buffer.toString('base64'): the standard alphabet with '=' padding
bufferToBase64(bytes) ==
    LET piece(g) == EncodeGroup(bytes, 3 * g - 2)
    IN  Concat(piece, 1, (Len(bytes) + 2) \div 3)

\* the sextets Buffer.from(text, 'base64') reads: characters outside the
\* alphabet are skipped and reading stops at the first '='
Sextets(s) ==
    LET p == indexOf(s, "=")
        upTo == IF p = 0 THEN Len(s) ELSE p - 1
        chars == [k \in 1..upTo |-> CharAt(s, k)]
        known(c) == c \in Base64Chars \cup {"-", "_"}
        kept == SelectSeq(chars, known)
    IN  [k \in 1..Len(kept) |-> revLookup(kept[k])]

\* the bytes of a sequence of sextets; a last lone sextet is dropped
SextetsToBytes(q) ==
    [k \in 1..((Len(q) * 6) \div 8) |->
        LET i == ((8 * (k - 1)) \div 6) + 1
            off == (8 * (k - 1)) % 6
        IN  IF off = 0 THEN q[i] * 4 + (q[i + 1] \div 16)
            ELSE IF off = 2 THEN (q[i] % 16) * 16 + (q[i + 1] \div 4)
            ELSE (q[i] % 4) * 64 + q[i + 1]]

\* Buffer.from(text, 'base64'): never throws
bufferFromBase64(s) == SextetsToBytes(Sextets(s))

\* ------------------------------------------------------------------------
\* JSON values and JSON.parse.  A value carries its JavaScript type in t.
\* ------------------------------------------------------------------------

JStr(s) == [t |-> "string", s |-> s]

JNum(text, zero) == [t |-> "number", text |-> text, zero |-> zero]

JBool(b) == [t |-> "boolean", b |-> b]

JNull == [t |-> "null"]

JUndef == [t |-> "undefined"]

JArr(a) == [t |-> "array", a |-> a]

JObj(o) == [t |-> "object", o |-> o]

\* a JavaScript object used as a map: a function from property names to values
EmptyMap == [k \in {} |-> JUndef]

\* obj[key] = v
Put(m, key, v) == [k \in DOMAIN m \cup {key} |-> IF k = key THEN v ELSE m[k]]

\* obj[key] of a map
Lookup(m, key) == IF key \in DOMAIN m THEN m[key] ELSE JUndef

Digits == {"0", "1", "2", "3", "4", "5", "6", "7", "8", "9"}

HexDigits == "0123456789abcdef"

HexUpper == "0123456789ABCDEF"

HexChars == {CharAt(HexDigits, i) : i \in 1..16} \cup {CharAt(HexUpper, i) : i \in 1..16}

HexValue == [c \in HexChars |->
                (CHOOSE i \in 1..16 : CharAt(HexDigits, i) = c \/ CharAt(HexUpper, i) = c) - 1]

IsHex(c) == c \in HexChars

HexVal(c) == HexValue[c]

JsonWs == {" ", "\t", "\n", "\r"}

\* the first position from i on that holds none of the characters; Len(s) + 1
\* when there is none
SkipChars(s, chars, i) ==
    LET other == {j \in i..Len(s) : CharAt(s, j) \notin chars}
    IN  IF other = {} THEN (IF i > Len(s) THEN i ELSE Len(s) + 1)
        ELSE CHOOSE m \in other : \A j \in other : m <= j

SkipWs(s, i) == SkipChars(s, JsonWs, i)

DigitsEnd(s, i) == SkipChars(s, Digits, i)

Fail == [ok |-> FALSE]

Parsed(v, i) == [ok |-> TRUE, v |-> v, i |-> i]

\* the escape at position i (a backslash): the character it stands for and
\* the number of characters it takes
EscapeChar(s, i) ==
    LET e == CharAt(s, i + 1)
    IN  IF e \in {"\"", "\\", "/"} THEN [ok |-> TRUE, c |-> e, n |-> 2]
        ELSE IF e = "n" THEN [ok |-> TRUE, c |-> "\n", n |-> 2]
        ELSE IF e = "r" THEN [ok |-> TRUE, c |-> "\r", n |-> 2]
        ELSE IF e = "t" THEN [ok |-> TRUE, c |-> "\t", n |-> 2]
        ELSE IF e \in {"b", "f"} THEN [ok |-> TRUE, c |-> Other, n |-> 2]
        ELSE IF e = "u" /\ \A k \in 2..5 : IsHex(CharAt(s, i + k))
             THEN [ok |-> TRUE, n |-> 6,
                   c |-> fromCharCode(HexVal(CharAt(s, i + 2)) * 4096 + HexVal(CharAt(s, i + 3)) * 256
                                      + HexVal(CharAt(s, i + 4)) * 16 + HexVal(CharAt(s, i + 5)))]
        ELSE [ok |-> FALSE]

RECURSIVE StringBody(_, _, _)

StringEscape(s, i, acc, e) ==
    IF e.ok THEN StringBody(s, i + e.n, acc \o e.c) ELSE Fail

\* j is the next quote, backslash or control character from i on
StringAt(s, i, acc, j) ==
    IF j = 0 THEN Fail
    ELSE IF CharAt(s, j) = "\"" THEN Parsed(acc \o SubSeq(s, i, j - 1), j + 1)
    ELSE IF CharAt(s, j) = "\\" THEN StringEscape(s, j, acc \o SubSeq(s, i, j - 1), EscapeChar(s, j))
    ELSE Fail

\* the characters of a JSON string from position i (after the opening quote):
\* plain characters are taken up to the next quote, backslash or control
\* character
StringBody(s, i, acc) == StringAt(s, i, acc, NextIndex(s, {"\"", "\\", "\t", "\n", "\r"}, i))

\* a JSON number from position i: -?(0|[1-9][0-9]*)(.[0-9]+)?([eE][+-]?[0-9]+)?
\* j0 is where its digits start, j1 where the integer part ends, j2 where the
\* fraction ends, j3 where the exponent ends; 0 marks a part that is malformed
NumberEnd(s, i, j0, j2, j3) ==
    IF j3 = 0 THEN Fail
    ELSE Parsed(JNum(SubSeq(s, i, j3 - 1), \A k \in j0..(j2 - 1) : CharAt(s, k) \in {"0", "."}), j3)

ExponentEnd(s, e0) == IF DigitsEnd(s, e0) = e0 THEN 0 ELSE DigitsEnd(s, e0)

NumberExp(s, i, j0, j2) ==
    IF j2 = 0 THEN Fail
    ELSE IF CharAt(s, j2) \in {"e", "E"}
    THEN NumberEnd(s, i, j0, j2,
                   ExponentEnd(s, IF CharAt(s, j2 + 1) \in {"+", "-"} THEN j2 + 2 ELSE j2 + 1))
    ELSE NumberEnd(s, i, j0, j2, j2)

NumberFrac(s, i, j0, j1) ==
    IF j1 = 0 THEN Fail
    ELSE IF CharAt(s, j1) = "." THEN NumberExp(s, i, j0, ExponentEnd(s, j1 + 1))
    ELSE NumberExp(s, i, j0, j1)

NumberInt(s, i, j0) ==
    IF CharAt(s, j0) \notin Digits THEN Fail
    ELSE IF CharAt(s, j0) = "0" THEN NumberFrac(s, i, j0, j0 + 1)
    ELSE NumberFrac(s, i, j0, DigitsEnd(s, j0))

ParseNumber(s, i) == NumberInt(s, i, IF CharAt(s, i) = "-" THEN i + 1 ELSE i)

RECURSIVE ParseValue(_, _)
RECURSIVE ParseElements(_, _, _)
RECURSIVE ParseMembers(_, _, _)

\* after an element, at position j: a comma or the closing bracket
ElementNext(s, acc, j) ==
    IF CharAt(s, j) = "," THEN ParseElements(s, j + 1, acc)
    ELSE IF CharAt(s, j) = "]" THEN Parsed(JArr(acc), j + 1)
    ELSE Fail

ElementParsed(s, acc, r) ==
    IF r.ok THEN ElementNext(s, Append(acc, r.v), SkipWs(s, r.i)) ELSE Fail

\* the elements of an array from position i (after '[' or ',')
ParseElements(s, i, acc) == ElementParsed(s, acc, ParseValue(s, SkipWs(s, i)))

\* after a member, at position j: a comma or the closing brace
MemberNext(s, acc, j) ==
    IF CharAt(s, j) = "," THEN ParseMembers(s, j + 1, acc)
    ELSE IF CharAt(s, j) = "}" THEN Parsed(JObj(acc), j + 1)
    ELSE Fail

\* a repeated key keeps its last value
MemberParsed(s, acc, key, r) ==
    IF r.ok THEN MemberNext(s, Put(acc, key, r.v), SkipWs(s, r.i)) ELSE Fail

MemberColon(s, acc, key, c) ==
    IF CharAt(s, c) = ":" THEN MemberParsed(s, acc, key, ParseValue(s, SkipWs(s, c + 1))) ELSE Fail

MemberKey(s, acc, key) ==
    IF key.ok THEN MemberColon(s, acc, key.v, SkipWs(s, key.i)) ELSE Fail

MemberAt(s, acc, k0) ==
    IF CharAt(s, k0) = "\"" THEN MemberKey(s, acc, StringBody(s, k0 + 1, "")) ELSE Fail

\* the members of an object from position i (after '{' or ',')
ParseMembers(s, i, acc) == MemberAt(s, acc, SkipWs(s, i))

StringValue(r) == IF r.ok THEN Parsed(JStr(r.v), r.i) ELSE Fail

ParseValue(s, i) ==
    IF CharAt(s, i) = "\"" THEN StringValue(StringBody(s, i + 1, ""))
    ELSE IF CharAt(s, i) = "[" THEN
        (IF CharAt(s, SkipWs(s, i + 1)) = "]" THEN Parsed(JArr(<< >>), SkipWs(s, i + 1) + 1)
         ELSE ParseElements(s, i + 1, << >>))
    ELSE IF CharAt(s, i) = "{" THEN
        (IF CharAt(s, SkipWs(s, i + 1)) = "}" THEN Parsed(JObj(EmptyMap), SkipWs(s, i + 1) + 1)
         ELSE ParseMembers(s, i + 1, EmptyMap))
    ELSE IF Slice(s, i, i + 3) = "true" THEN Parsed(JBool(TRUE), i + 4)
    ELSE IF Slice(s, i, i + 4) = "false" THEN Parsed(JBool(FALSE), i + 5)
    ELSE IF Slice(s, i, i + 3) = "null" THEN Parsed(JNull, i + 4)
    ELSE IF CharAt(s, i) = "-" \/ CharAt(s, i) \in Digits THEN ParseNumber(s, i)
    ELSE Fail

WholeText(text, r) ==
    IF r.ok /\ SkipWs(text, r.i) > Len(text) THEN Returned(r.v) ELSE Thrown

\* JSON.parse: the value, or a SyntaxError
JSONparse(text) == WholeText(text, ParseValue(text, SkipWs(text, 1)))

\* ToBoolean
Truthy(v) ==
    IF v.t = "string" THEN v.s # ""
    ELSE IF v.t = "number" THEN ~v.zero
    ELSE IF v.t = "boolean" THEN v.b
    ELSE v.t \in {"array", "object"}

\* ToString, as a property key and inside a template literal
RECURSIVE ToStr(_)

ElementText(v) == IF v.t \in {"null", "undefined"} THEN "" ELSE ToStr(v)

RECURSIVE JoinValues(_)
JoinValues(a) ==
    IF Len(a) = 0 THEN ""
    ELSE IF Len(a) = 1 THEN ElementText(a[1])
    ELSE ElementText(a[1]) \o "," \o JoinValues(Tail(a))

ToStr(v) ==
    IF v.t = "string" THEN v.s
    ELSE IF v.t = "number" THEN v.text
    ELSE IF v.t = "boolean" THEN (IF v.b THEN "true" ELSE "false")
    ELSE IF v.t = "array" THEN JoinValues(v.a)
    ELSE IF v.t = "object" THEN "[object Object]"
    ELSE v.t

\* reading a property of null or undefined throws a TypeError
IsNullish(v) == v.t \in {"null", "undefined"}

\* v[key] for a parsed value: a property of an object, undefined on a
\* primitive or an array
Get(v, key) == IF v.t = "object" THEN Lookup(v.o, key) ELSE JUndef

\* ------------------------------------------------------------------------
\* decodeURIComponent
\* ------------------------------------------------------------------------

\* the byte of the escape %XX at position i, or -1 when there is none
EscapeAt(s, i) ==
    IF CharAt(s, i) = "%" /\ IsHex(CharAt(s, i + 1)) /\ IsHex(CharAt(s, i + 2))
    THEN HexVal(CharAt(s, i + 1)) * 16 + HexVal(CharAt(s, i + 2))
    ELSE -1

\* how many continuation bytes follow the leading byte b of a UTF-8
\* sequence, or -1 when b cannot lead one
Continuations(b) ==
    IF b >= 194 /\ b <= 223 THEN 1
    ELSE IF b >= 224 /\ b <= 239 THEN 2
    ELSE IF b >= 240 /\ b <= 244 THEN 3
    ELSE -1

\* the range allowed for the first continuation byte after leading byte b
SecondLow(b) == IF b = 224 THEN 160 ELSE IF b = 240 THEN 144 ELSE 128

SecondHigh(b) == IF b = 237 THEN 159 ELSE IF b = 244 THEN 143 ELSE 191

ContinuationOk(b, k, cb) ==
    /\ cb >= (IF k = 1 THEN SecondLow(b) ELSE 128)
    /\ cb <= (IF k = 1 THEN SecondHigh(b) ELSE 191)

RECURSIVE decodeFrom(_, _, _)

\* the escape at j leads a sequence of n continuation bytes
DecodeMulti(s, acc, j, b, n) ==
    IF n >= 0 /\ \A k \in 1..n : ContinuationOk(b, k, EscapeAt(s, j + 3 * k))
    THEN decodeFrom(s, j + 3 * (n + 1), acc \o Other)
    ELSE Thrown

DecodeEscape(s, acc, j, b) ==
    IF b < 0 THEN Thrown
    ELSE IF b < 128 THEN decodeFrom(s, j + 3, acc \o fromCharCode(b))
    ELSE DecodeMulti(s, acc, j, b, Continuations(b))

\* j is the next '%' from i on
DecodeAt(s, acc, i, j) ==
    IF j = 0 THEN Returned(acc \o Slice(s, i, Len(s)))
    ELSE DecodeEscape(s, acc \o SubSeq(s, i, j - 1), j, EscapeAt(s, j))

decodeFrom(s, i, acc) == DecodeAt(s, acc, i, NextIndex(s, {"%"}, i))

\* decodeURIComponent: the decoded text, or a URIError
decodeURIComponent(s) == decodeFrom(s, 1, "")

\* ------------------------------------------------------------------------
\* CookieParser of server.js
\* ------------------------------------------------------------------------

NoString == [null |-> TRUE, s |-> ""]

SomeString(s) == [null |-> FALSE, s |-> s]

DecodedText(decodedBytes) ==
    IF decodedBytes.threw THEN NoString ELSE SomeString(utf8Decode(decodedBytes.v))

\* server.js decodeBase64Cookies: the decoded text, or null when
\* toByteArray throws
decodeBase64Cookies(cookieString) == DecodedText(toByteArray(trim(cookieString)))

\* if (item.name && item.value) cookies[item.name] = item.value
StoreItem(cookies, item) ==
    IF Truthy(Get(item, "name")) /\ Truthy(Get(item, "value"))
    THEN Put(cookies, ToStr(Get(item, "name")), Get(item, "value"))
    ELSE cookies

\* data.forEach(item => { if (item.name && item.value) cookies[item.name] = item.value })
\* threw is set when an item is null: reading item.name throws a TypeError and
\* the entries stored so far stay in cookies
RECURSIVE CollectItems(_, _, _)
CollectItems(items, k, cookies) ==
    IF k > Len(items) THEN [threw |-> FALSE, cookies |-> cookies]
    ELSE IF IsNullish(items[k]) THEN [threw |-> TRUE, cookies |-> cookies]
    ELSE CollectItems(items, k + 1, StoreItem(cookies, items[k]))

\* Object.keys(data).forEach(key => { if (typeof data[key] === 'string') cookies[key] = data[key] })
StringEntries(o) == [k \in {x \in DOMAIN o : o[x].t = "string"} |-> o[k]]

\* const [name, ...valueParts] = pair.trim().split('='); valueParts.join('=')
PairName(pair) == split(trim(pair), "=")[1]

PairValue(pair) == join(Tail(split(trim(pair), "=")), "=")

\* if (!cookieObj.endsWith('}')) cookieObj = cookieObj + '}'
CloseBrace(cookieObj) == IF endsWith(cookieObj, "}") THEN cookieObj ELSE cookieObj \o "}"

\* one segment of the Netscape-like form: a segment that does not parse, or
\* parses to null, throws inside the try of line 84 and is skipped
NetscapeObject(cookies, data) ==
    IF data.threw THEN cookies
    ELSE IF IsNullish(data.v) THEN cookies
    ELSE StoreItem(cookies, data.v)

\* the Netscape-like form: each segment between ';' is closed with '}' when
\* needed and parsed on its own
RECURSIVE NetscapeObjects(_, _, _)
NetscapeObjects(objs, k, cookies) ==
    IF k > Len(objs) THEN cookies
    ELSE IF trim(objs[k]) = "" THEN NetscapeObjects(objs, k + 1, cookies)
    ELSE NetscapeObjects(objs, k + 1, NetscapeObject(cookies, JSONparse(CloseBrace(trim(objs[k])))))

\* the raw form inside a decoded text: no URL-decoding of the value
RECURSIVE RawPairs(_, _, _)
RawPairs(pairs, k, cookies) ==
    IF k > Len(pairs) THEN cookies
    ELSE IF includes(pairs[k], "=")
         THEN RawPairs(pairs, k + 1, Put(cookies, PairName(pairs[k]), JStr(PairValue(pairs[k]))))
         ELSE RawPairs(pairs, k + 1, cookies)

\* server.js parseCookiesFromDecoded, lines 77-119: what runs when the text is
\* not JSON, or when the JSON branch threw with `cookies` partly filled
AfterJson(decodedString, cookies) ==
    IF includes(decodedString, "\";\"") /\ includes(decodedString, "\"name\"")
    THEN NetscapeObjects(split(decodedString, ";"), 1, cookies)
    ELSE IF includes(decodedString, "=")
    THEN RawPairs(split(decodedString, ";"), 1, cookies)
    ELSE cookies

\* lines 52-57: the array branch; a TypeError is caught by line 72
FromItems(decodedString, c) ==
    IF c.threw THEN AfterJson(decodedString, c.cookies) ELSE c.cookies

\* lines 58-70: a single {name, value} object, or a flat object of which the
\* string values are kept
FromObject(data) ==
    IF Truthy(Get(data, "name")) /\ Truthy(Get(data, "value"))
    THEN Put(EmptyMap, ToStr(Get(data, "name")), Get(data, "value"))
    ELSE StringEntries(data.o)

\* lines 50-74: the JSON branch
FromJson(decodedString, data) ==
    IF data.threw THEN AfterJson(decodedString, EmptyMap)
    ELSE IF data.v.t = "array" THEN FromItems(decodedString, CollectItems(data.v.a, 1, EmptyMap))
    ELSE FromObject(data.v)

\* server.js parseCookiesFromDecoded
parseCookiesFromDecoded(decodedString) ==
    IF startsWith(decodedString, "[") \/ startsWith(decodedString, "{")
    THEN FromJson(decodedString, JSONparse(decodedString))
    ELSE AfterJson(decodedString, EmptyMap)

RECURSIVE DirectPairs(_, _, _)

\* cookies[name] = decodeURIComponent(value): a URIError leaves the function
DirectPair(pairs, k, cookies, value) ==
    IF value.threw THEN [threw |-> TRUE, cookies |-> cookies]
    ELSE DirectPairs(pairs, k + 1, Put(cookies, PairName(pairs[k]), JStr(value.v)))

\* server.js parseCookieString, lines 128-135: the direct parse.  The value is
\* URL-decoded with no try around it.
DirectPairs(pairs, k, cookies) ==
    IF k > Len(pairs) THEN [threw |-> FALSE, cookies |-> cookies]
    ELSE IF ~includes(pairs[k], "=") THEN DirectPairs(pairs, k + 1, cookies)
    ELSE DirectPair(pairs, k, cookies, decodeURIComponent(PairValue(pairs[k])))

DirectThreshold == 50

\* line 127: whether the direct parse is tried
IsDirect(cookieString) ==
    includes(cookieString, "=")
    /\ (includes(cookieString, ";") \/ Len(cookieString) > DirectThreshold)

\* lines 140-143
FromBase64(decoded) ==
    IF ~decoded.null /\ decoded.s # "" THEN parseCookiesFromDecoded(decoded.s) ELSE EmptyMap

\* lines 138-144: the base64 stage runs when the direct parse stored nothing
AfterDirect(cookieString, direct) ==
    IF direct.threw THEN Thrown
    ELSE IF DOMAIN direct.cookies # {} THEN Returned(direct.cookies)
    ELSE Returned(FromBase64(decodeBase64Cookies(cookieString)))

\* server.js parseCookieString, lines 124-144: the decode stage, the map
\* `cookies` before the required names are extracted
DecodeStage(cookieString) ==
    IF IsDirect(cookieString)
    THEN AfterDirect(cookieString, DirectPairs(split(cookieString, ";"), 1, EmptyMap))
    ELSE AfterDirect(cookieString, [threw |-> FALSE, cookies |-> EmptyMap])

\* server.js cookieMapping, lines 148-155, in the order of its keys
cookieMapping ==
    << <<"cf_clearance", <<"cf_clearance", "cf-clearance", "cloudflare">> >>,
       <<"XSRF-TOKEN", <<"XSRF-TOKEN", "xsrf-token", "csrf_token">> >>,
       <<"ivas_sms_session", <<"ivas_sms_session", "session", "laravel_session">> >>,
       <<"_ga", <<"_ga", "ga">> >>,
       <<"_gid", <<"_gid", "gid">> >>,
       <<"_fbp", <<"_fbp", "fbp">> >> >>

CanonicalNames == {cookieMapping[i][1] : i \in 1..Len(cookieMapping)}

\* for (const possibleName of possibleNames) if (cookies[possibleName]) { ...; break }
\* the first alias with a truthy value, "" when there is none
RECURSIVE FirstAlias(_, _, _)
FirstAlias(cookies, possibleNames, k) ==
    IF k > Len(possibleNames) THEN ""
    ELSE IF Truthy(Lookup(cookies, possibleNames[k])) THEN possibleNames[k]
    ELSE FirstAlias(cookies, possibleNames, k + 1)

\* lines 157-165, one required name after the other
RECURSIVE ExtractFrom(_, _, _)
ExtractFrom(cookies, i, requiredCookies) ==
    IF i > Len(cookieMapping) THEN requiredCookies
    ELSE IF FirstAlias(cookies, cookieMapping[i][2], 1) = "" THEN ExtractFrom(cookies, i + 1, requiredCookies)
    ELSE ExtractFrom(cookies, i + 1,
                     Put(requiredCookies, cookieMapping[i][1],
                         cookies[FirstAlias(cookies, cookieMapping[i][2], 1)]))

\* server.js parseCookieString, lines 146-168: requiredCookies
ExtractRequired(cookies) == ExtractFrom(cookies, 1, EmptyMap)

Extracted(raw) == IF raw.threw THEN Thrown ELSE Returned(ExtractRequired(raw.v))

\* server.js CookieParser.parseCookieString: requiredCookies, or the URIError
parseCookieString(cookieString) == Extracted(DecodeStage(cookieString))

\* ------------------------------------------------------------------------
\* CookieParser of netlify/functions/utils.js
\* ------------------------------------------------------------------------

\* utils.js isBase64: the text survives a decode/encode round trip
isBase64(str) == bufferToBase64(bufferFromBase64(str)) = str

RECURSIVE utils_RawPairs(_, _, _)

\* cookies[name.trim()] = decodeURIComponent(...): a URIError leaves the loop
\* for the catch of line 61 with the entries stored so far
utils_RawPair(pairs, k, cookies, value) ==
    IF value.threw THEN cookies
    ELSE utils_RawPairs(pairs, k + 1, Put(cookies, trim(PairName(pairs[k])), JStr(value.v)))

\* utils.js parseCookieString, lines 51-59: the raw form
utils_RawPairs(pairs, k, cookies) ==
    IF k > Len(pairs) THEN cookies
    ELSE IF ~includes(pairs[k], "=") THEN utils_RawPairs(pairs, k + 1, cookies)
    ELSE IF PairName(pairs[k]) = "" THEN utils_RawPairs(pairs, k + 1, cookies)
    ELSE utils_RawPair(pairs, k, cookies, decodeURIComponent(trim(PairValue(pairs[k]))))

\* lines 28-33: the array branch; a TypeError is caught by line 45 and the raw
\* form is tried with the entries stored so far
utils_FromItems(decodedString, c) ==
    IF c.threw THEN utils_RawPairs(split(decodedString, ";"), 1, c.cookies) ELSE c.cookies

\* lines 26-47: the JSON branch
utils_FromJson(decodedString, data) ==
    IF data.threw THEN utils_RawPairs(split(decodedString, ";"), 1, EmptyMap)
    ELSE IF data.v.t = "array" THEN utils_FromItems(decodedString, CollectItems(data.v.a, 1, EmptyMap))
    ELSE FromObject(data.v)

\* lines 24-59
utils_FromDecoded(decodedString) ==
    IF startsWith(decodedString, "[") \/ startsWith(decodedString, "{")
    THEN utils_FromJson(decodedString, JSONparse(decodedString))
    ELSE utils_RawPairs(split(decodedString, ";"), 1, EmptyMap)

\* lines 13-22
utils_FromTrimmed(trimmed) ==
    IF isBase64(trimmed) THEN utils_FromDecoded(utf8Decode(bufferFromBase64(trimmed)))
    ELSE utils_FromDecoded(trimmed)

\* utils.js CookieParser.parseCookieString: never throws, and returns the
\* decoded map as it is, under the decoded names
utils_parseCookieString(cookieString) ==
    IF cookieString = "" THEN EmptyMap ELSE utils_FromTrimmed(trim(cookieString))

\* const required = ['cf_clearance', 'XSRF-TOKEN', 'ivas_sms_session']
required == <<"cf_clearance", "XSRF-TOKEN", "ivas_sms_session">>

\* required.filter(cookie => !cookies[cookie])
RECURSIVE FilterMissing(_, _, _)
FilterMissing(names, k, cookies) ==
    IF k > Len(names) THEN << >>
    ELSE IF Truthy(Lookup(cookies, names[k])) THEN FilterMissing(names, k + 1, cookies)
    ELSE <<names[k]>> \o FilterMissing(names, k + 1, cookies)

Validation(missing) == [valid |-> Len(missing) = 0, missing |-> missing]

\* a validation that asks only whether the name is a key of the set
validateCookies_presence(cookies) ==
    Validation(SelectSeq(required, LAMBDA name : name \notin DOMAIN cookies))

\* utils.js CookieParser.validateCookies, and lines 351-352 of server.js
validateCookies(cookies) == Validation(FilterMissing(required, 1, cookies))

\* ------------------------------------------------------------------------
\* IVASClient.parseSmsData (server.js) and parseSMSData (utils.js)
\* ------------------------------------------------------------------------

Uppers == "ABCDEFGHIJKLMNOPQRSTUVWXYZ"

Lowers == "abcdefghijklmnopqrstuvwxyz"

UpperChars == {CharAt(Uppers, i) : i \in 1..Len(Uppers)}

LowerChars == {CharAt(Lowers, i) : i \in 1..Len(Lowers)}

LowerOf == [c \in UpperChars |-> CharAt(Lowers, CHOOSE i \in 1..Len(Uppers) : CharAt(Uppers, i) = c)]

LowerChar(c) == IF c \in UpperChars THEN LowerOf[c] ELSE c

\* String.prototype.toLowerCase
toLowerCase(s) == Concat(LAMBDA k : LowerChar(CharAt(s, k)), 1, Len(s))

\* The document cheerio.load gives: the children of <body> in order, each a
\* run of text or a table, a table being its rows and a row the texts of its
\* td/th cells.  Tables are not nested.
TextNode(s) == [tag |-> "text", text |-> s, rows |-> << >>]

TableNode(rows) == [tag |-> "table", text |-> "", rows |-> rows]

RowText(cells) == Concat(LAMBDA k : cells[k], 1, Len(cells))

TableText(rows) == Concat(LAMBDA r : RowText(rows[r]), 1, Len(rows))

NodeText(n) == IF n.tag = "table" THEN TableText(n.rows) ELSE n.text

\* $('body').text()
BodyText(doc) == Concat(LAMBDA k : NodeText(doc[k]), 1, Len(doc))

\* $('table').each(... $(table).find('tr').each(...)): the rows in document order
RECURSIVE AllRows(_, _)
AllRows(doc, k) ==
    IF k > Len(doc) THEN << >>
    ELSE IF doc[k].tag = "table" THEN doc[k].rows \o AllRows(doc, k + 1)
    ELSE AllRows(doc, k + 1)

socialKeywords == {"facebook", "instagram", "whatsapp", "fb", "ig", "wa"}

\* socialKeywords.some(keyword => serviceLower.includes(keyword))
IsSocial(serviceLower) == \E keyword \in socialKeywords : includes(serviceLower, keyword)

\* a standardization that keeps the text it is given
ServiceOf_asWritten(lower) == lower

\* the standardized service name of a lower-cased text, "" when it names none
ServiceOf(lower) ==
    IF includes(lower, "facebook") \/ includes(lower, "fb") THEN "Facebook"
    ELSE IF includes(lower, "instagram") \/ includes(lower, "ig") THEN "Instagram"
    ELSE IF includes(lower, "whatsapp") \/ includes(lower, "wa") THEN "WhatsApp"
    ELSE ""

\* a stamp that lags the clock by the length of the recency window
toISOString_stale(ms) == [iso |-> ms - 5 * 60 * 1000]

\* new Date().toISOString(): the instant, as the text that names it
toISOString(ms) == [iso |-> ms]

\* a timestamp text that names no instant: new Date(text) is an Invalid Date
NotADate == [text |-> "not a date"]

\* whether new Date(text) is a valid date
IsInstant(timestamp) == "iso" \in DOMAIN timestamp

\* new Date(text).getTime() of a valid date
DateParse(timestamp) == timestamp.iso

\* smsEntry of a row of at least 4 cells, before the service is standardized
RowEntry(cells, ms) ==
    [sid |-> trim(cells[1]),
     message |-> trim(cells[2]),
     service |-> trim(cells[3]),
     country |-> trim(cells[4]),
     range |-> IF Len(cells) > 4 THEN trim(cells[5]) ELSE "",
     content |-> IF Len(cells) > 5 THEN trim(cells[6]) ELSE trim(cells[2]),
     timestamp |-> toISOString(ms)]

\* the structural strategy: the rows of at least 4 cells whose service cell
\* names a tracked platform, with the service standardized
RECURSIVE TableData(_, _, _)
TableData(rows, k, ms) ==
    IF k > Len(rows) THEN << >>
    ELSE IF Len(rows[k]) >= 4 /\ IsSocial(toLowerCase(trim(rows[k][3])))
    THEN <<[RowEntry(rows[k], ms) EXCEPT !.service = ServiceOf(toLowerCase(trim(rows[k][3])))]>>
         \o TableData(rows, k + 1, ms)
    ELSE TableData(rows, k + 1, ms)

MinOrZero(S) == IF S = {} THEN 0 ELSE CHOOSE m \in S : \A j \in S : m <= j

SidChars == UpperChars \cup Digits

\* line.match(/[A-Z0-9]{8,}/): where the leftmost match starts, 0 for no match
SidStart(line) ==
    MinOrZero({i \in 1..(Len(line) - 7) : \A j \in i..(i + 7) : CharAt(line, j) \in SidChars})

SidMatch(line, i) ==
    IF i = 0 THEN "N/A" ELSE Slice(line, i, SkipChars(line, SidChars, i) - 1)

\* /[A-Z]{2,3}|[A-Z][a-z]+(?:\s+[A-Z][a-z]+)*/: where the leftmost match starts
CountryStart(tail) ==
    MinOrZero({i \in 1..Len(tail) : /\ CharAt(tail, i) \in UpperChars
                                    /\ CharAt(tail, i + 1) \in UpperChars \cup LowerChars})

RECURSIVE WordsEnd(_, _)

\* w is the first position after the white space that follows position e - 1
MoreWords(tail, e, w) ==
    IF w > e /\ CharAt(tail, w) \in UpperChars /\ CharAt(tail, w + 1) \in LowerChars
    THEN WordsEnd(tail, SkipChars(tail, LowerChars, w + 1))
    ELSE e

\* the position after the capitalized words matched from e on
WordsEnd(tail, e) == MoreWords(tail, e, SkipChars(tail, WhiteSpace, e))

\* the position after the match that starts at i
CountryEnd(tail, i) ==
    IF CharAt(tail, i + 1) \in UpperChars
    THEN (IF CharAt(tail, i + 2) \in UpperChars THEN i + 3 ELSE i + 2)
    ELSE WordsEnd(tail, SkipChars(tail, LowerChars, i + 1))

CountryMatch(tail, i) ==
    IF i = 0 THEN "Unknown" ELSE Slice(tail, i, CountryEnd(tail, i) - 1)

CountryOf(tail) == CountryMatch(tail, CountryStart(tail))

\* line.substring(Math.max(0, line.length - 50))
LineTail(line) == Slice(line, (IF Len(line) > 50 THEN Len(line) - 50 ELSE 0) + 1, Len(line))

lineKeywords == {"facebook", "instagram", "whatsapp", "sms", "message", "code"}

\* whether the textual strategy makes a record of the trimmed line
LineEmits(line) ==
    /\ Len(line) > 10
    /\ \E keyword \in lineKeywords : includes(toLowerCase(line), keyword)
    /\ ServiceOf(toLowerCase(line)) # ""

LineRecord(line, ms) ==
    [sid |-> SidMatch(line, SidStart(line)),
     message |-> IF Len(line) > 100 THEN substring0(line, 100) \o "..." ELSE line,
     service |-> ServiceOf(toLowerCase(line)),
     country |-> CountryOf(LineTail(line)),
     range |-> "N/A",
     content |-> line,
     timestamp |-> toISOString(ms)]

\* the textual strategy over the lines of the body text
RECURSIVE TextData(_, _, _)
TextData(lines, k, ms) ==
    IF k > Len(lines) THEN << >>
    ELSE IF LineEmits(trim(lines[k]))
    THEN <<LineRecord(trim(lines[k]), ms)>> \o TextData(lines, k + 1, ms)
    ELSE TextData(lines, k + 1, ms)

\* if (data.length === 0) { ...lines.forEach... }
FallBack(doc, ms, data) ==
    IF Len(data) = 0 THEN TextData(split(BodyText(doc), "\n"), 1, ms) ELSE data

\* server.js IVASClient.parseSmsData: nothing unless the body text mentions
\* "sms" or "message"; the tables; the lines when the tables gave nothing
parseSmsData(doc, ms) ==
    IF ~includes(toLowerCase(BodyText(doc)), "sms") /\ ~includes(toLowerCase(BodyText(doc)), "message")
    THEN << >>
    ELSE FallBack(doc, ms, TableData(AllRows(doc, 1), 1, ms))

\* utils.js IVASClient.parseSMSData: the tables only
parseSMSData(doc, ms) == TableData(AllRows(doc, 1), 1, ms)

\* ------------------------------------------------------------------------
\* The aggregation of the fetch-data and stats handlers
\* ------------------------------------------------------------------------

trackedKeywords == {"facebook", "instagram", "whatsapp"}

\* ['facebook', 'instagram', 'whatsapp'].some(keyword => service.includes(keyword))
IsTracked(item) == \E keyword \in trackedKeywords : includes(toLowerCase(item.service), keyword)

\* whether the lower-cased filter is empty or contained in the lower-cased text
Matches(filter, text) == filter = "" \/ includes(toLowerCase(text), filter)

\* smsData.filter(...) of the stats handlers
StatsFilter(smsData, serviceFilter, countryFilter) ==
    SelectSeq(smsData, LAMBDA item : /\ Matches(serviceFilter, item.service)
                                     /\ Matches(countryFilter, item.country)
                                     /\ IsTracked(item))

\* The own properties of an object that counts occurrences, as the sequence
\* Object.entries and Object.keys give: the keys that are array indices in
\* ascending numeric order, then the other keys in the order of their creation.
MaxIndexText == "4294967294"

\* a < b for digit texts of equal length
LexLess(a, b) ==
    \E i \in 1..Len(a) : /\ charCodeAt(CharAt(a, i)) < charCodeAt(CharAt(b, i))
                         /\ \A j \in 1..(i - 1) : CharAt(a, j) = CharAt(b, j)

IsArrayIndex(key) ==
    /\ Len(key) >= 1
    /\ \A i \in 1..Len(key) : CharAt(key, i) \in Digits
    /\ (Len(key) = 1 \/ CharAt(key, 1) # "0")
    /\ (Len(key) < Len(MaxIndexText) \/ (Len(key) = Len(MaxIndexText) /\ ~LexLess(MaxIndexText, key)))

IndexLess(a, b) == Len(a) < Len(b) \/ (Len(a) = Len(b) /\ LexLess(a, b))

InsertAt(counts, p, key) == SubSeq(counts, 1, p) \o << <<key, 1>> >> \o SubSeq(counts, p + 1, Len(counts))

\* obj[key] = (obj[key] || 0) + 1
Increment(counts, key) ==
    IF \E i \in DOMAIN counts : counts[i][1] = key
    THEN [i \in DOMAIN counts |-> IF counts[i][1] = key THEN <<key, counts[i][2] + 1>> ELSE counts[i]]
    ELSE IF IsArrayIndex(key)
    THEN InsertAt(counts, Cardinality({i \in DOMAIN counts : /\ IsArrayIndex(counts[i][1])
                                                             /\ IndexLess(counts[i][1], key)}), key)
    ELSE Append(counts, <<key, 1>>)

\* the counts of the keys in the order given
RECURSIVE Tally(_, _, _)
Tally(keys, k, counts) ==
    IF k > Len(keys) THEN counts ELSE Tally(keys, k + 1, Increment(counts, keys[k]))

ServiceCount(items) == Tally([i \in DOMAIN items |-> items[i].service], 1, << >>)

CountryCount(items) == Tally([i \in DOMAIN items |-> items[i].country], 1, << >>)

\* the place of entry i after .sort((a, b) => b[1] - a[1]): the sort is stable
Rank(counts, i) ==
    1 + Cardinality({j \in DOMAIN counts : \/ counts[j][2] > counts[i][2]
                                           \/ (counts[j][2] = counts[i][2] /\ j < i)})

SortByCount(counts) ==
    [p \in 1..Len(counts) |-> counts[CHOOSE i \in DOMAIN counts : Rank(counts, i) = p]]

\* Object.entries(count).sort((a, b) => b[1] - a[1]).slice(0, 10)
TopTen(counts) == SubSeq(SortByCount(counts), 1, IF Len(counts) > 10 THEN 10 ELSE Len(counts))

\* array.slice(0, n)
slice0(a, n) == SubSeq(a, 1, IF Len(a) > n THEN n ELSE Len(a))

RecentWindow == 5 * 60 * 1000

\* filteredData.filter(item => new Date(item.timestamp) > cutoff), the cutoff
\* taken at ms: new Date never throws, so neither catch is ever entered
RecentData(filteredData, ms) ==
    SelectSeq(filteredData,
              LAMBDA item : IsInstant(item.timestamp) /\ DateParse(item.timestamp) > ms - RecentWindow)

\* the fields both fetch-data handlers answer with
FetchSummary(filteredData, ms) ==
    [success |-> TRUE,
     total |-> Len(filteredData),
     recent |-> Len(RecentData(filteredData, ms)),
     top_services |-> TopTen(ServiceCount(filteredData)),
     top_countries |-> TopTen(CountryCount(filteredData)),
     recent_data |-> slice0(RecentData(filteredData, ms), 20),
     all_data |-> slice0(filteredData, 100),
     timestamp |-> toISOString(ms)]

\* const filteredData = smsData.filter(...) of the fetch-data handlers
FetchData(smsData, ms) == FetchSummary(SelectSeq(smsData, IsTracked), ms)

HourMs == 60 * 60 * 1000

\* new Date(item.timestamp).getHours(), as a property key
HourKey(item) ==
    LET hour == (DateParse(item.timestamp) \div HourMs) % 24
    IN  IF ~IsInstant(item.timestamp) THEN "NaN"
        ELSE IF hour < 10 THEN CharAt("0123456789", hour + 1)
        ELSE CharAt("12", hour \div 10) \o CharAt("0123456789", (hour % 10) + 1)

\* stats.ranges, a Set: the distinct ranges other than '' and 'N/A' in the
\* order of their first occurrence
RECURSIVE Ranges(_, _, _)
Ranges(items, k, seen) ==
    IF k > Len(items) THEN seen
    ELSE IF items[k].range = "" \/ items[k].range = "N/A" \/ (\E i \in DOMAIN seen : seen[i] = items[k].range)
    THEN Ranges(items, k + 1, seen)
    ELSE Ranges(items, k + 1, Append(seen, items[k].range))

\* the stats object of server.js; JSON.stringify writes the Set as {}
Stats(filteredData) ==
    [total |-> Len(filteredData),
     by_service |-> ServiceCount(filteredData),
     by_country |-> CountryCount(filteredData),
     by_hour |-> Tally([i \in DOMAIN filteredData |-> HourKey(filteredData[i])], 1, << >>)]

ServerStatsBody(filteredData) ==
    [success |-> TRUE, stats |-> Stats(filteredData), ranges |-> slice0(Ranges(filteredData, 1, << >>), 20)]

\* Math.round((count / total) * 100) for 0 <= count <= total, total > 0
Percentage(count, total) == IF total > 0 THEN (200 * count + total) \div (2 * total) ELSE 0

\* service_distribution and country_distribution of the stats handler
Distribution(counts, total) ==
    [i \in DOMAIN counts |->
        <<counts[i][1], [count |-> counts[i][2], percentage |-> Percentage(counts[i][2], total)]>>]

NetlifyStatsBody(filteredData) ==
    [success |-> TRUE,
     stats |-> Stats(filteredData)
               @@ [service_distribution |-> Distribution(ServiceCount(filteredData), Len(filteredData)),
                   country_distribution |-> Distribution(CountryCount(filteredData), Len(filteredData))],
     ranges |-> slice0(Ranges(filteredData, 1, << >>), 20),
     summary |-> [total_filtered |-> Len(filteredData),
                  services_count |-> Len(ServiceCount(filteredData)),
                  countries_count |-> Len(CountryCount(filteredData)),
                  unique_ranges |-> Len(Ranges(filteredData, 1, << >>))]]

\* ------------------------------------------------------------------------
\* The cookie strings the model is run on
\* ------------------------------------------------------------------------

MaxValueLen == 3

MaxItems == 2

ValueAlphabet == {"v", "=", "%", "4"}

\* every text over the alphabet of at most n characters
RECURSIVE TextsUpTo(_, _)
TextsUpTo(alphabet, n) ==
    IF n = 0 THEN {""}
    ELSE LET shorter == TextsUpTo(alphabet, n - 1)
         IN  shorter \cup {s \o c : s \in shorter, c \in alphabet}

PairValues == TextsUpTo(ValueAlphabet, MaxValueLen) \cup {" v", "v ", "v v", "%E2%82%AC", "%C3%28"}

PairNames == {<<"a", "c">>, <<"cf_clearance", "session">>}

\* name1=value1; name2=value2
PairsInput(n1, v1, n2, v2) == [kind |-> "pairs", n1 |-> n1, v1 |-> v1, n2 |-> n2, v2 |-> v2]

PairsInputs ==
    {PairsInput(n[1], v, n[2], "d") : n \in PairNames, v \in PairValues}
    \cup {PairsInput(n[1], "b", n[2], v) : n \in PairNames, v \in PairValues}

\* a JSON array of {name, value} objects with string names and values, base64-wrapped
ItemNames == {"a", "c", "cf_clearance"}

ItemValues == {"b", "dd", "eee"}

Items == {<<n, v>> : n \in ItemNames, v \in ItemValues}

RECURSIVE ItemLists(_)
ItemLists(n) ==
    IF n = 0 THEN {<< >>}
    ELSE LET shorter == ItemLists(n - 1)
         IN  shorter \cup {Append(l, i) : l \in {x \in shorter : Len(x) = n - 1}, i \in Items}

ArrayInputs == {[kind |-> "array", items |-> l] : l \in ItemLists(MaxItems) \ {<< >>}}

\* JSON.stringify of the array (names and values need no escaping)
RECURSIVE ItemsText(_)
ItemsText(items) ==
    IF Len(items) = 0 THEN ""
    ELSE "{\"name\":\"" \o items[1][1] \o "\",\"value\":\"" \o items[1][2] \o "\"}"
         \o (IF Len(items) > 1 THEN "," \o ItemsText(Tail(items)) ELSE "")

ArrayText(items) == "[" \o ItemsText(items) \o "]"

\* texts given as they are
PlainTexts ==
    { "",
      "   ",
      "cf_clearance=x; XSRF-TOKEN=y; ivas_sms_session=z",
      "cf-clearance=x; csrf_token=y; laravel_session=z",
      "cloudflare=w; cf-clearance=x; xsrf-token=y; session=z",
      "cf_clearance=x; XSRF-TOKEN=y",
      "cf_clearance=x; XSRF-TOKEN=y; ivas_sms_session=",
      "cf_clearance=; cf-clearance=x; XSRF-TOKEN=y; ivas_sms_session=z",
      "cf_clearance=x; XSRF-TOKEN=y; ivas_sms_session=z; _ga=g; tracker=t",
      "cf_clearance=x; XSRF-TOKEN=%; ivas_sms_session=z",
      "cf_clearance=x",
      "=v; b=w",
      "abcd",
      "ab=cdefg",
      "====",
      "not base64!",
      "[{\"name\":\"cf_clearance\",\"value\":\"x\"},{\"name\":\"XSRF-TOKEN\",\"value\":\"y\"},{\"name\":\"ivas_sms_session\",\"value\":\"z\"}]",
      "{\"cf_clearance\":\"x\",\"XSRF-TOKEN\":\"y\",\"ivas_sms_session\":\"z\",\"n\":1}" }

\* texts given base64-wrapped
WrappedTexts ==
    { "cf_clearance=x; XSRF-TOKEN=y; ivas_sms_session=z",
      "cf_clearance=x;XSRF-TOKEN=%;ivas_sms_session=z",
      "[{\"name\":\"cf_clearance\",\"value\":5},{\"name\":\"XSRF-TOKEN\",\"value\":true},{\"name\":\"ivas_sms_session\",\"value\":[1]}]",
      "[{\"name\":\"cf_clearance\",\"value\":{\"v\":1}},{\"name\":7,\"value\":\"x\"}]",
      "[{\"name\":\"a\",\"value\":\"b\"},null,{\"name\":\"c\",\"value\":\"d\"}]",
      "[1,\"x\",[],{\"name\":\"a\"},{\"name\":\"c\",\"value\":0}]",
      "{\"name\":\"cf_clearance\",\"value\":\"x\"}",
      "{\"name\":\"cf_clearance\",\"value\":12}",
      "{\"cf_clearance\":\"x\",\"XSRF-TOKEN\":\"\",\"ivas_sms_session\":\"z\",\"n\":1,\"o\":null}",
      "{\"name\":\"a\",\"value\":\"b\";\"x\"};{\"name\":\"c\",\"value\":\"d\"",
      "{\"name\":\"a\",\"value\":3}  ;  {\"name\":\"n\",\"value\":\";\"};null;{bad",
      "[not json",
      "{}",
      "plain text" }

TextInputs ==
    {[kind |-> "text", s |-> s] : s \in PlainTexts}
    \cup {[kind |-> "base64", s |-> s] : s \in WrappedTexts}

Inputs == PairsInputs \cup ArrayInputs \cup TextInputs

\* the cookie string of an input
CookieText(in) ==
    IF in.kind = "pairs" THEN in.n1 \o "=" \o in.v1 \o "; " \o in.n2 \o "=" \o in.v2
    ELSE IF in.kind = "array" THEN bufferToBase64(utf8Encode(ArrayText(in.items)))
    ELSE IF in.kind = "base64" THEN bufferToBase64(utf8Encode(in.s))
    ELSE in.s

\* ------------------------------------------------------------------------
\* Requests and the portal's answers
\* ------------------------------------------------------------------------

Absent == [present |-> FALSE, s |-> ""]

Given(s) == [present |-> TRUE, s |-> s]

\* body.field || ''
OrEmpty(field) == IF field.present THEN field.s ELSE ""

Targets == {"server", "netlify"}

Operations == {"parse-cookies", "test-connection", "fetch-data", "stats"}

PortalOperations == {"test-connection", "fetch-data", "stats"}

\* the cookies field of a request body: absent, or one of the texts
CookieFields == {Absent} \cup {Given(CookieText(in)) : in \in TextInputs}

ServiceFilters == {Absent, Given("FACE")}

CountryFilters == {Absent, Given("us")}

Body(cookies, service, country) == [cookies |-> cookies, service |-> service, country |-> country]

Request(target, op, method, body) == [target |-> target, op |-> op, method |-> method, body |-> body]

\* The POST requests of the four operations, with the filters only the stats
\* operation reads, and for the functions the other methods they are called with.
PostRequests ==
    {Request(tg, op, "POST", Body(c, Absent, Absent)) : tg \in Targets, op \in Operations, c \in CookieFields}
    \cup {Request(tg, "stats", "POST", Body(c, s, k)) :
              tg \in Targets, c \in CookieFields, s \in ServiceFilters, k \in CountryFilters}

OtherRequests ==
    {Request("netlify", op, m, Body(c, Absent, Absent)) :
         op \in Operations, m \in {"OPTIONS", "GET"}, c \in {Absent, Given("cf_clearance=x; XSRF-TOKEN=y; ivas_sms_session=z")}}

Requests == PostRequests \cup OtherRequests

\* the documents the portal answers with
LoginPage == <<TextNode("Please sign in")>>

\* one table with one row
MessengerPage == <<TableNode(<< <<"SID123", "code 4821", "Facebook Messenger", "United States">> >>)>>

LivePage ==
    <<TextNode("Live SMS\n"),
      TableNode(<< <<"Sid", "Message", "Service", "Country", "Range">>,
                   <<"A1", " code 1 ", "FB", "US", "R1">>,
                   <<"A2", "code 2", "instagram", "10", "R1", "c2">>,
                   <<"A3", "use code 3", "Telegram", "US", "R2">>,
                   <<"A4", "code 4", "Whatsapp Business", "US", "N/A">>,
                   <<"A5", "short", "ig">> >>)>>

InboxPage ==
    <<TextNode("SMS inbox\nABCD12345 Your WhatsApp code 123 from United States \nfb\nTelegram message here US")>>

\* tables whose rows are all of a service that is not tracked
TelegramPage == <<TableNode(<< <<"T1", "sms text 7", "Telegram", "Peru">> >>)>>

TelegramCodePage == <<TableNode(<< <<"T2", "Your SMS code via WhatsApp 55", "Telegram", "US">> >>)>>

\* ten rows, six of Facebook and four of Instagram
TenPage ==
    <<TableNode(<< <<"F1", "sms 1", "facebook", "US">>, <<"F2", "sms 2", "facebook", "US">>,
                   <<"F3", "sms 3", "facebook", "UK">>, <<"I1", "sms 4", "instagram", "US">>,
                   <<"F4", "sms 5", "facebook", "UK">>, <<"I2", "sms 6", "instagram", "UK">>,
                   <<"F5", "sms 7", "facebook", "US">>, <<"I3", "sms 8", "instagram", "PE">>,
                   <<"F6", "sms 9", "facebook", "US">>, <<"I4", "sms 0", "instagram", "US">> >>)>>

\* two rows of equal counts, the second of a country written as a number
TiePage == <<TableNode(<< <<"B1", "sms a", "ig", "US">>, <<"B2", "sms b", "fb", "10">> >>)>>

\* more rows than recent_data holds
ManyRows == 21

\* one table of ManyRows rows of WhatsApp
ManyPage == <<TableNode([k \in 1..ManyRows |-> <<"W", "sms w", "wa", "US">>])>>

Documents ==
    {<< >>, LoginPage, MessengerPage, LivePage, InboxPage, TelegramPage, TelegramCodePage, TenPage, TiePage,
     ManyPage}

Statuses == {200, 302, 404, 500}

Failures == {"timeout", "dns", "refused"}

Answer(status, data) == [kind |-> "response", status |-> status, data |-> data]

Failure(failure) == [kind |-> "failure", failure |-> failure]

\* what the transport can do with one call: a response of any status, or no
\* response (the timeout of the call elapsed, the name did not resolve, the
\* connection was refused)
Outcomes ==
    {Answer(200, d) : d \in Documents}
    \cup {Answer(s, d) : s \in Statuses \ {200}, d \in {LoginPage, LivePage}}
    \cup {Failure(f) : f \in Failures}

NoOutcome == [kind |-> "none"]

\* the markup of a document, response.data
CellHtml(text) == "<td>" \o text \o "</td>"

RowHtml(cells) == "<tr>" \o Concat(LAMBDA k : CellHtml(cells[k]), 1, Len(cells)) \o "</tr>"

NodeHtml(n) ==
    IF n.tag = "table"
    THEN "<table>" \o Concat(LAMBDA r : RowHtml(n.rows[r]), 1, Len(n.rows)) \o "</table>"
    ELSE n.text

Html(doc) == "<html><body>" \o Concat(LAMBDA k : NodeHtml(doc[k]), 1, Len(doc)) \o "</body></html>"

\* error.message of the error axios rejects with
ErrorMessage(failure, timeout) ==
    IF failure = "timeout" THEN "timeout of " \o timeout \o "ms exceeded"
    ELSE IF failure = "dns" THEN "getaddrinfo ENOTFOUND www.ivasms.com"
    ELSE "connect ECONNREFUSED"

Num(n) == [t |-> "number", n |-> n]

PreviewLimit == 500

\* server.js IVASClient.testConnection: [isConnected, status, preview]
testConnection(outcome, timeout) ==
    IF outcome.kind = "response"
    THEN <<outcome.status = 200 \/ outcome.status = 302, Num(outcome.status),
           substring0(Html(outcome.data), PreviewLimit)>>
    ELSE <<FALSE, JStr(ErrorMessage(outcome.failure, timeout)), "">>

\* utils.js IVASClient.testConnection
utils_testConnection(outcome, timeout) ==
    IF outcome.kind = "response"
    THEN [success |-> outcome.status = 200 \/ outcome.status = 302,
          status |-> Num(outcome.status),
          data |-> substring0(Html(outcome.data), PreviewLimit)]
    ELSE [success |-> FALSE, error |-> ErrorMessage(outcome.failure, timeout), status |-> Num(0)]

\* a fetch that hands the body of every response to the extractor
fetchSmsData_anyStatus(outcome, ms) ==
    IF outcome.kind = "response" THEN parseSmsData(outcome.data, ms) ELSE << >>

\* server.js IVASClient.fetchSmsData
fetchSmsData(outcome, ms) ==
    IF outcome.kind = "response" /\ outcome.status = 200 THEN parseSmsData(outcome.data, ms) ELSE << >>

\* utils.js IVASClient.fetchSMSData
fetchSMSData(outcome, ms) ==
    IF outcome.kind = "response" /\ outcome.status = 200 THEN parseSMSData(outcome.data, ms) ELSE << >>

\* Object.keys(cookies).map(key => key + '=' + cookies[key]): the pairs of the
\* Cookie header
CookiePairs(cookies) == {k \o "=" \o ToStr(cookies[k]) : k \in DOMAIN cookies}

\* the request axios.get issues
Call(cookies, timeout) ==
    [url |-> "https://www.ivasms.com/portal/live/test_sms", Cookie |-> CookiePairs(cookies), timeout |-> timeout]

ProbeTimeout == "10000"

FetchTimeout == "30000"

\* new IVASClient(cookies)
Client(cookies) == [built |-> TRUE, cookies |-> cookies]

NoClient == [built |-> FALSE, cookies |-> EmptyMap]

\* ------------------------------------------------------------------------
\* Responses
\* ------------------------------------------------------------------------

NoResponse == [sent |-> FALSE]

\* res.json(body)
ServerJson(body) == [sent |-> TRUE, statusCode |-> 200, body |-> body]

\* utils.js ResponseHelper
ResponseHelper_success(data) == [sent |-> TRUE, statusCode |-> 200, body |-> data @@ [success |-> TRUE]]

ResponseHelper_error(message, statusCode) ==
    [sent |-> TRUE, statusCode |-> statusCode, body |-> [success |-> FALSE, error |-> message]]

ResponseHelper_cors == [sent |-> TRUE, statusCode |-> 200, body |-> ""]

NoCookiesProvided == "No cookies provided"

MissingPrefix == "Missing required cookies: "

MissingMessage(missing) == MissingPrefix \o join(missing, ", ")

\* value.length > 50 ? value.substring(0, 50) + '...' : value
ShownLimit == 50

Shown(value) ==
    IF value.t = "string" /\ Len(value.s) > ShownLimit
    THEN JStr(substring0(value.s, ShownLimit) \o "...")
    ELSE value

\* an array of more than 50 elements has no substring: a TypeError
ShownThrows(cookies) == \E k \in DOMAIN cookies : cookies[k].t = "array" /\ Len(cookies[k].a) > ShownLimit

ShownCookies(cookies) == [k \in DOMAIN cookies |-> Shown(cookies[k])]

\* server.js /api/parse-cookies, lines 350-371
ServerParseBody(cookies, missing) ==
    IF Len(missing) > 0
    THEN [success |-> FALSE, error |-> MissingMessage(missing), parsed_cookies |-> DOMAIN cookies]
    ELSE IF ShownThrows(cookies)
    THEN [success |-> FALSE, error |-> "cookies[key].substring is not a function"]
    ELSE [success |-> TRUE, cookies |-> ShownCookies(cookies), cookie_count |-> Cardinality(DOMAIN cookies)]

\* parse-cookies.js, lines 33-41
NetlifyParseResponse(cookies) ==
    IF ShownThrows(cookies)
    THEN ResponseHelper_error("value.substring is not a function", 500)
    ELSE ResponseHelper_success([cookies |-> ShownCookies(cookies),
                                 cookie_count |-> Cardinality(DOMAIN cookies),
                                 required_cookies_found |-> TRUE])

\* the functions answer a preflight and refuse the methods other than POST
GateResponse(method) ==
    IF method = "OPTIONS" THEN ResponseHelper_cors ELSE ResponseHelper_error("Method not allowed", 405)

\* ------------------------------------------------------------------------
\* State
\* ------------------------------------------------------------------------

VARIABLES
    request,    \* the request being handled: target, operation, method, body
    pc,         \* "received", "awaiting" the portal's answer, "responded"
    decodes,    \* how many times the handler called parseCookieString
    held,       \* the handler's `cookies`, once parseCookieString returned
    client,     \* the IVASClient the handler built
    calls,      \* the requests issued to the portal
    transport,  \* what the transport did with the call
    probe,      \* what testConnection returned
    response,   \* the response sent
    now,        \* the clock, in milliseconds
    input,      \* the decoder under test: the cookie string it is given
    decoder,    \* "none" before decoding, then "server" or "netlify"
    result,     \* what the decoder returned
    validation, \* what validateCookies returned for the decoder's map
    records,    \* the views under test: the record list they are given
    view,       \* the view taken of the records, and what it answered
    handlers,   \* concurrent requests: the state of each handler
    portal      \* concurrent requests: the portal's answer to each handler's call

hvars == <<request, pc, decodes, held, client, calls, transport, probe, response, now>>

dvars == <<input, decoder, result, validation>>

rvars == <<records, view>>

cvars == <<handlers, portal>>

vars == <<request, pc, decodes, held, client, calls, transport, probe, response, now,
          input, decoder, result, validation, records, view, handlers, portal>>

NoView == [of |-> "none"]

NoCookies == [decoded |-> FALSE, v |-> EmptyMap]

Decoded(v) == [decoded |-> TRUE, v |-> v]

NoProbe == [called |-> FALSE]

NoResult == [threw |-> FALSE, decoded |-> EmptyMap, cookies |-> EmptyMap]

NoValidation == [called |-> FALSE]

StartTime == 400000

MaxElapsed == 1

\* ------------------------------------------------------------------------
\* The functions the handlers call, tabulated over the inputs of the model
\* ------------------------------------------------------------------------

\* the cookie strings the handlers parse: the field of the body, trimmed or not
CookieStrings == {OrEmpty(c) : c \in CookieFields} \cup {trim(OrEmpty(c)) : c \in CookieFields}

\* the instants the clock takes
Clock == StartTime..(StartTime + MaxElapsed)

\* the filters of the stats handlers, lower-cased
FilterTexts == {toLowerCase(OrEmpty(f)) : f \in ServiceFilters \cup CountryFilters}

\* CookieParser.parseCookieString of server.js
ServerParse == [s \in CookieStrings |-> parseCookieString(s)]

\* CookieParser.parseCookieString of utils.js
NetlifyParse == [s \in CookieStrings |-> utils_parseCookieString(s)]

\* CookieParser.validateCookies of what parseCookieString of utils.js returned
NetlifyChecked == [s \in CookieStrings |-> validateCookies(utils_parseCookieString(s))]

\* client.testConnection() of server.js
ServerProbe == [outcome \in Outcomes |-> testConnection(outcome, ProbeTimeout)]

\* client.testConnection() of utils.js
NetlifyProbe == [outcome \in Outcomes |-> utils_testConnection(outcome, ProbeTimeout)]

\* /api/fetch-data: the records are stamped at ms, the recency cutoff is taken at `at`
ServerFetchBody ==
    [outcome \in Outcomes, ms \in Clock, at \in Clock |-> FetchData(fetchSmsData(outcome, ms), at)]

\* fetch-data.js
NetlifyFetchBody ==
    [outcome \in Outcomes, ms \in Clock, at \in Clock |-> FetchData(fetchSMSData(outcome, ms), at)]

\* /api/stats
ServerStatsAnswer ==
    [outcome \in Outcomes, ms \in Clock, service \in FilterTexts, country \in FilterTexts |->
        ServerStatsBody(StatsFilter(fetchSmsData(outcome, ms), service, country))]

\* the stats function
NetlifyStatsAnswer ==
    [outcome \in Outcomes, ms \in Clock, service \in FilterTexts, country \in FilterTexts |->
        NetlifyStatsBody(StatsFilter(fetchSMSData(outcome, ms), service, country))]

\* ------------------------------------------------------------------------
\* The handlers of server.js
\* ------------------------------------------------------------------------

Init ==
    /\ request \in Requests
    /\ pc = "received"
    /\ decodes = 0
    /\ held = NoCookies
    /\ client = NoClient
    /\ calls = << >>
    /\ transport = NoOutcome
    /\ probe = NoProbe
    /\ response = NoResponse
    /\ now = StartTime
    /\ input = [kind |-> "text", s |-> ""]
    /\ decoder = "off"
    /\ result = NoResult
    /\ validation = NoValidation
    /\ records = << >>
    /\ view = NoView
    /\ handlers = << >>
    /\ portal = << >>

Respond(r) == response' = r /\ pc' = "responded"

Handles(target, op) == request.target = target /\ request.op = op /\ pc = "received"

Resumes(target, op) == request.target = target /\ request.op = op /\ pc = "awaiting"

\* the catch of a handler: res.json({success: false, error: e.message})
URIErrorMessage == "URI malformed"

\* /api/parse-cookies after parseCookieString
ServerParsed(parsed) ==
    /\ decodes' = decodes + 1
    /\ IF parsed.threw
       THEN Respond(ServerJson([success |-> FALSE, error |-> URIErrorMessage])) /\ held' = held
       ELSE /\ held' = Decoded(parsed.v)
            /\ Respond(ServerJson(ServerParseBody(parsed.v, FilterMissing(required, 1, parsed.v))))

\* app.post('/api/parse-cookies')
ServerParseCookies ==
    /\ Handles("server", "parse-cookies")
    /\ IF trim(OrEmpty(request.body.cookies)) = ""
       THEN Respond(ServerJson([success |-> FALSE, error |-> NoCookiesProvided]))
            /\ UNCHANGED <<decodes, held>>
       ELSE ServerParsed(ServerParse[trim(OrEmpty(request.body.cookies))])
    /\ UNCHANGED <<request, client, calls, transport, probe, now>>
    /\ UNCHANGED <<dvars, rvars, cvars>>

\* after parseCookieString in the handlers that go to the portal: the client
\* is built from whatever was parsed and the call is issued
ServerCall(parsed, timeout) ==
    /\ decodes' = decodes + 1
    /\ IF parsed.threw
       THEN /\ Respond(ServerJson([success |-> FALSE, error |-> URIErrorMessage]))
            /\ UNCHANGED <<held, client, calls>>
       ELSE /\ held' = Decoded(parsed.v)
            /\ client' = Client(parsed.v)
            /\ calls' = Append(calls, Call(parsed.v, timeout))
            /\ pc' = "awaiting"
            /\ UNCHANGED response

\* app.post('/api/test-connection'), up to the await
ServerTestConnection ==
    /\ Handles("server", "test-connection")
    /\ IF trim(OrEmpty(request.body.cookies)) = ""
       THEN Respond(ServerJson([success |-> FALSE, error |-> NoCookiesProvided]))
            /\ UNCHANGED <<decodes, held, client, calls>>
       ELSE ServerCall(ServerParse[trim(OrEmpty(request.body.cookies))], ProbeTimeout)
    /\ UNCHANGED <<request, transport, probe, now>>
    /\ UNCHANGED <<dvars, rvars, cvars>>

\* the body /api/test-connection answers with
ServerProbeBody(r, count) == [success |-> r[1], status |-> r[2], preview |-> r[3], cookie_count |-> count]

\* app.post('/api/test-connection'), from the await on
ServerTestConnectionDone ==
    /\ Resumes("server", "test-connection")
    /\ \E outcome \in Outcomes :
          /\ transport' = outcome
          /\ probe' = ServerProbe[outcome]
          /\ Respond(ServerJson(ServerProbeBody(ServerProbe[outcome],
                                                Cardinality(DOMAIN client.cookies))))
    /\ UNCHANGED <<request, decodes, held, client, calls, now>>
    /\ UNCHANGED <<dvars, rvars, cvars>>

\* app.post('/api/fetch-data'), up to the await
ServerFetchData ==
    /\ Handles("server", "fetch-data")
    /\ IF trim(OrEmpty(request.body.cookies)) = ""
       THEN Respond(ServerJson([success |-> FALSE, error |-> NoCookiesProvided]))
            /\ UNCHANGED <<decodes, held, client, calls>>
       ELSE ServerCall(ServerParse[trim(OrEmpty(request.body.cookies))], FetchTimeout)
    /\ UNCHANGED <<request, transport, probe, now>>
    /\ UNCHANGED <<dvars, rvars, cvars>>

\* a handler that issues the call once more when the first one failed
ServerFetchDataDone_retry ==
    /\ Resumes("server", "fetch-data")
    /\ \E outcome \in Outcomes, elapsed \in 0..MaxElapsed :
          /\ transport' = outcome
          /\ now' = now + elapsed
          /\ IF outcome.kind = "failure" /\ transport.kind = "none"
             THEN calls' = Append(calls, calls[1]) /\ UNCHANGED <<pc, response>>
             ELSE Respond(ServerJson(ServerFetchBody[outcome, now, now + elapsed]))
                  /\ UNCHANGED calls
    /\ UNCHANGED <<request, decodes, held, client, probe>>
    /\ UNCHANGED <<dvars, rvars, cvars>>

\* app.post('/api/fetch-data'), from the await on: the records are stamped at
\* `now`, the recency cutoff is taken `elapsed` later
ServerFetchDataDone ==
    /\ Resumes("server", "fetch-data")
    /\ \E outcome \in Outcomes, elapsed \in 0..MaxElapsed :
          /\ transport' = outcome
          /\ now' = now + elapsed
          /\ Respond(ServerJson(ServerFetchBody[outcome, now, now + elapsed]))
    /\ UNCHANGED <<request, decodes, held, client, calls, probe>>
    /\ UNCHANGED <<dvars, rvars, cvars>>

\* app.post('/api/stats'), up to the await: the cookie string is neither
\* trimmed nor checked
ServerStats ==
    /\ Handles("server", "stats")
    /\ ServerCall(ServerParse[OrEmpty(request.body.cookies)], FetchTimeout)
    /\ UNCHANGED <<request, transport, probe, now>>
    /\ UNCHANGED <<dvars, rvars, cvars>>

\* app.post('/api/stats'), from the await on
ServerStatsDone ==
    /\ Resumes("server", "stats")
    /\ \E outcome \in Outcomes :
          /\ transport' = outcome
          /\ Respond(ServerJson(ServerStatsAnswer[outcome, now,
                                              toLowerCase(OrEmpty(request.body.service)),
                                              toLowerCase(OrEmpty(request.body.country))]))
    /\ UNCHANGED <<request, decodes, held, client, calls, probe, now>>
    /\ UNCHANGED <<dvars, rvars, cvars>>

\* ------------------------------------------------------------------------
\* The handlers of netlify/functions
\* ------------------------------------------------------------------------

\* parse-cookies.js after parseCookieString and validateCookies
NetlifyParsed(parsed, checked) ==
    /\ decodes' = decodes + 1
    /\ held' = Decoded(parsed)
    /\ IF ~checked.valid
       THEN Respond(ResponseHelper_error(MissingMessage(checked.missing), 400))
       ELSE Respond(NetlifyParseResponse(parsed))

\* parse-cookies.js exports.handler
NetlifyParseCookies ==
    /\ Handles("netlify", "parse-cookies")
    /\ IF request.method # "POST"
       THEN Respond(GateResponse(request.method)) /\ UNCHANGED <<decodes, held>>
       ELSE IF trim(OrEmpty(request.body.cookies)) = ""
       THEN Respond(ResponseHelper_error(NoCookiesProvided, 400)) /\ UNCHANGED <<decodes, held>>
       ELSE NetlifyParsed(NetlifyParse[trim(OrEmpty(request.body.cookies))],
                          NetlifyChecked[trim(OrEmpty(request.body.cookies))])
    /\ UNCHANGED <<request, client, calls, transport, probe, now>>
    /\ UNCHANGED <<dvars, rvars, cvars>>

\* after parseCookieString and validateCookies in the functions that go to
\* the portal: the client is built and the call issued only for a valid set
NetlifyCall(parsed, checked, timeout) ==
    /\ decodes' = decodes + 1
    /\ held' = Decoded(parsed)
    /\ IF ~checked.valid
       THEN /\ Respond(ResponseHelper_error(MissingMessage(checked.missing), 400))
            /\ UNCHANGED <<client, calls>>
       ELSE /\ client' = Client(parsed)
            /\ calls' = Append(calls, Call(parsed, timeout))
            /\ pc' = "awaiting"
            /\ UNCHANGED response

\* test-connection function exports.handler, up to the await
NetlifyTestConnection ==
    /\ Handles("netlify", "test-connection")
    /\ IF request.method # "POST"
       THEN Respond(GateResponse(request.method)) /\ UNCHANGED <<decodes, held, client, calls>>
       ELSE IF trim(OrEmpty(request.body.cookies)) = ""
       THEN Respond(ResponseHelper_error(NoCookiesProvided, 400)) /\ UNCHANGED <<decodes, held, client, calls>>
       ELSE NetlifyCall(NetlifyParse[trim(OrEmpty(request.body.cookies))],
                        NetlifyChecked[trim(OrEmpty(request.body.cookies))],
                        ProbeTimeout)
    /\ UNCHANGED <<request, transport, probe, now>>
    /\ UNCHANGED <<dvars, rvars, cvars>>

\* the data the test-connection function answers with; result.data is
\* undefined after a failure and JSON.stringify leaves the field out
NetlifyProbeData(r, count, ms) ==
    IF "data" \in DOMAIN r
    THEN [connected |-> r.success, status |-> r.status, preview |-> r.data,
          timestamp |-> toISOString(ms), cookie_count |-> count]
    ELSE [connected |-> r.success, status |-> r.status,
          timestamp |-> toISOString(ms), cookie_count |-> count]

\* test-connection function exports.handler, from the await on
NetlifyTestConnectionDone ==
    /\ Resumes("netlify", "test-connection")
    /\ \E outcome \in Outcomes :
          /\ transport' = outcome
          /\ probe' = NetlifyProbe[outcome]
          /\ Respond(ResponseHelper_success(NetlifyProbeData(NetlifyProbe[outcome],
                                                             Cardinality(DOMAIN client.cookies), now)))
    /\ UNCHANGED <<request, decodes, held, client, calls, now>>
    /\ UNCHANGED <<dvars, rvars, cvars>>

\* fetch-data.js exports.handler, up to the await
NetlifyFetchData ==
    /\ Handles("netlify", "fetch-data")
    /\ IF request.method # "POST"
       THEN Respond(GateResponse(request.method)) /\ UNCHANGED <<decodes, held, client, calls>>
       ELSE IF trim(OrEmpty(request.body.cookies)) = ""
       THEN Respond(ResponseHelper_error(NoCookiesProvided, 400)) /\ UNCHANGED <<decodes, held, client, calls>>
       ELSE NetlifyCall(NetlifyParse[trim(OrEmpty(request.body.cookies))],
                        NetlifyChecked[trim(OrEmpty(request.body.cookies))],
                        FetchTimeout)
    /\ UNCHANGED <<request, transport, probe, now>>
    /\ UNCHANGED <<dvars, rvars, cvars>>

\* a call made without a timeout: when the portal gives no answer the await
\* never settles and the handler stays where it is
NetlifyFetchDataDone_noTimeout ==
    /\ Resumes("netlify", "fetch-data")
    /\ transport.kind = "none"
    /\ \E outcome \in Outcomes, elapsed \in 0..MaxElapsed :
          /\ transport' = outcome
          /\ now' = now + elapsed
          /\ IF outcome = Failure("timeout")
             THEN UNCHANGED <<pc, response>>
             ELSE Respond(ResponseHelper_success(NetlifyFetchBody[outcome, now, now + elapsed]
                                                 @@ [data_source |-> "iVAS SMS Portal"]))
    /\ UNCHANGED <<request, decodes, held, client, calls, probe>>
    /\ UNCHANGED <<dvars, rvars, cvars>>

\* fetch-data.js exports.handler, from the await on
NetlifyFetchDataDone ==
    /\ Resumes("netlify", "fetch-data")
    /\ \E outcome \in Outcomes, elapsed \in 0..MaxElapsed :
          /\ transport' = outcome
          /\ now' = now + elapsed
          /\ Respond(ResponseHelper_success(NetlifyFetchBody[outcome, now, now + elapsed]
                                            @@ [data_source |-> "iVAS SMS Portal"]))
    /\ UNCHANGED <<request, decodes, held, client, calls, probe>>
    /\ UNCHANGED <<dvars, rvars, cvars>>

\* stats function exports.handler, up to the await: the cookie string is
\* neither trimmed nor checked, the parsed set is validated
NetlifyStats ==
    /\ Handles("netlify", "stats")
    /\ IF request.method # "POST"
       THEN Respond(GateResponse(request.method)) /\ UNCHANGED <<decodes, held, client, calls>>
       ELSE NetlifyCall(NetlifyParse[OrEmpty(request.body.cookies)],
                        NetlifyChecked[OrEmpty(request.body.cookies)],
                        FetchTimeout)
    /\ UNCHANGED <<request, transport, probe, now>>
    /\ UNCHANGED <<dvars, rvars, cvars>>

\* stats function exports.handler, from the await on
NetlifyStatsDone ==
    /\ Resumes("netlify", "stats")
    /\ \E outcome \in Outcomes :
          /\ transport' = outcome
          /\ Respond(ResponseHelper_success(NetlifyStatsAnswer[outcome, now,
                                                                toLowerCase(OrEmpty(request.body.service)),
                                                                toLowerCase(OrEmpty(request.body.country))]))
    /\ UNCHANGED <<request, decodes, held, client, calls, probe, now>>
    /\ UNCHANGED <<dvars, rvars, cvars>>

Next ==
    \/ ServerParseCookies
    \/ ServerTestConnection
    \/ ServerTestConnectionDone
    \/ ServerFetchData
    \/ ServerFetchDataDone
    \/ ServerStats
    \/ ServerStatsDone
    \/ NetlifyParseCookies
    \/ NetlifyTestConnection
    \/ NetlifyTestConnectionDone
    \/ NetlifyFetchData
    \/ NetlifyFetchDataDone
    \/ NetlifyStats
    \/ NetlifyStatsDone

Spec == Init /\ [][Next]_vars

\* The event loop runs every continuation that is ready, and the timeout of
\* axios.get settles every await: a step that can be taken is taken.
SpecLive == Init /\ [][Next]_vars /\ WF_vars(Next)

\* ------------------------------------------------------------------------
\* The decoders, applied to one cookie string
\* ------------------------------------------------------------------------

InitDecode ==
    /\ input \in Inputs
    /\ decoder = "none"
    /\ result = NoResult
    /\ validation = NoValidation
    /\ records = << >>
    /\ view = NoView
    /\ handlers = << >>
    /\ portal = << >>
    /\ request = Request("none", "none", "none", Body(Absent, Absent, Absent))
    /\ pc = "off"
    /\ decodes = 0
    /\ held = NoCookies
    /\ client = NoClient
    /\ calls = << >>
    /\ transport = NoOutcome
    /\ probe = NoProbe
    /\ response = NoResponse
    /\ now = StartTime

\* what parseCookieString of server.js did: the map of the decode stage and
\* the required cookies extracted from it, or the error thrown
ServerResult(raw) ==
    IF raw.threw THEN [threw |-> TRUE, decoded |-> EmptyMap, cookies |-> EmptyMap]
    ELSE [threw |-> FALSE, decoded |-> raw.v, cookies |-> ExtractRequired(raw.v)]

\* CookieParser.parseCookieString of server.js
ServerDecode ==
    /\ decoder = "none"
    /\ decoder' = "server"
    /\ result' = ServerResult(DecodeStage(CookieText(input)))
    /\ UNCHANGED <<input, validation>>
    /\ UNCHANGED <<hvars, rvars, cvars>>

NetlifyResult(parsed) == [threw |-> FALSE, decoded |-> parsed, cookies |-> parsed]

\* CookieParser.parseCookieString of utils.js
NetlifyDecode ==
    /\ decoder = "none"
    /\ decoder' = "netlify"
    /\ result' = NetlifyResult(utils_parseCookieString(CookieText(input)))
    /\ UNCHANGED <<input, validation>>
    /\ UNCHANGED <<hvars, rvars, cvars>>

\* the validation of the map the decoder returned
Validate ==
    /\ decoder \in {"server", "netlify"}
    /\ ~result.threw
    /\ "valid" \notin DOMAIN validation
    /\ validation' = validateCookies(result.cookies)
    /\ UNCHANGED <<input, decoder, result>>
    /\ UNCHANGED <<hvars, rvars, cvars>>

NextDecode == ServerDecode \/ NetlifyDecode \/ Validate

SpecDecode == InitDecode /\ [][NextDecode]_vars

\* ------------------------------------------------------------------------
\* The views of the handlers, applied to one record list
\* ------------------------------------------------------------------------

MaxRecords == 2

\* timestamps around the cutoff of the clock, and one that names no instant
Timestamps ==
    {toISOString(StartTime - RecentWindow - 1), toISOString(StartTime - RecentWindow),
     toISOString(StartTime - RecentWindow + 1), toISOString(StartTime), NotADate}

\* a record of a tracked platform with the timestamp
Stamped(timestamp) ==
    [sid |-> "S1", message |-> "code 1", service |-> "Facebook", country |-> "US",
     range |-> "R1", content |-> "code 1", timestamp |-> timestamp]

RecordLists ==
    UNION {[1..n -> {Stamped(timestamp) : timestamp \in Timestamps}] : n \in 0..MaxRecords}

InitViews ==
    /\ records \in RecordLists
    /\ view = NoView
    /\ now = StartTime
    /\ input = [kind |-> "text", s |-> ""]
    /\ decoder = "off"
    /\ result = NoResult
    /\ validation = NoValidation
    /\ request = Request("none", "none", "none", Body(Absent, Absent, Absent))
    /\ pc = "off"
    /\ decodes = 0
    /\ held = NoCookies
    /\ client = NoClient
    /\ calls = << >>
    /\ transport = NoOutcome
    /\ probe = NoProbe
    /\ response = NoResponse
    /\ handlers = << >>
    /\ portal = << >>

View(target, of, body) == [target |-> target, of |-> of, body |-> body]

TakeView(v) ==
    /\ view = NoView
    /\ view' = v
    /\ UNCHANGED <<records, hvars, dvars, cvars>>

\* the summary of app.post('/api/fetch-data')
ServerFetchView == TakeView(View("server", "fetch-data", FetchSummary(records, now)))

\* the summary of fetch-data.js
NetlifyFetchView == TakeView(View("netlify", "fetch-data", FetchSummary(records, now)))

\* the statistics of app.post('/api/stats')
ServerStatsView == TakeView(View("server", "stats", ServerStatsBody(records)))

\* the statistics of the netlify stats handler
NetlifyStatsView == TakeView(View("netlify", "stats", NetlifyStatsBody(records)))

NextViews == ServerFetchView \/ NetlifyFetchView \/ ServerStatsView \/ NetlifyStatsView

SpecViews == InitViews /\ [][NextViews]_vars

\* ------------------------------------------------------------------------
\* Requests handled concurrently
\* ------------------------------------------------------------------------

\* the number of requests in flight at once
MaxRequests == 2

ConcurrentCookies ==
    {"cf_clearance=x; XSRF-TOKEN=y; ivas_sms_session=z",
     "cf_clearance=x; XSRF-TOKEN=y; ivas_sms_session=z; _ga=g; tracker=t",
     "cf_clearance=x"}

ConcurrentRequests ==
    {Request(tg, "fetch-data", "POST", Body(Given(s), Absent, Absent)) : tg \in Targets, s \in ConcurrentCookies}

ConcurrentOutcomes == {Answer(200, LivePage), Answer(200, TiePage), Failure("timeout")}

\* the locals of one invocation of a handler: req, cookies and client, the
\* call it awaits, the two readings of the clock and what it sent
Handler(r) ==
    [request |-> r, pc |-> "received", client |-> NoClient, calls |-> << >>,
     reads |-> << >>, response |-> NoResponse]

\* res.json(...) / return ResponseHelper...
Sent(h, r) == [h EXCEPT !.response = r, !.pc = "responded"]

\* one client shared by every invocation: the first one built serves the later ones
NewClient_shared(inflight, parsed) ==
    IF \E j \in DOMAIN inflight : inflight[j].client.built
    THEN inflight[CHOOSE j \in DOMAIN inflight : inflight[j].client.built].client
    ELSE Client(parsed)

\* const client = new IVASClient(cookies): a fresh instance that holds the
\* cookies of the invocation building it, whatever else is in flight
NewClient(inflight, parsed) == Client(parsed)

\* await client.fetchSmsData(): the call carries this.cookies
Awaiting(h, c, timeout) ==
    [h EXCEPT !.client = c, !.calls = Append(@, Call(c.cookies, timeout)), !.pc = "awaiting"]

\* app.post('/api/fetch-data'), up to the await
ServerFetchStart(h, inflight) ==
    IF trim(OrEmpty(h.request.body.cookies)) = ""
    THEN Sent(h, ServerJson([success |-> FALSE, error |-> NoCookiesProvided]))
    ELSE IF ServerParse[trim(OrEmpty(h.request.body.cookies))].threw
    THEN Sent(h, ServerJson([success |-> FALSE, error |-> URIErrorMessage]))
    ELSE Awaiting(h, NewClient(inflight, ServerParse[trim(OrEmpty(h.request.body.cookies))].v), FetchTimeout)

\* fetch-data.js exports.handler, up to the await
NetlifyFetchStart(h, inflight) ==
    IF h.request.method # "POST"
    THEN Sent(h, GateResponse(h.request.method))
    ELSE IF trim(OrEmpty(h.request.body.cookies)) = ""
    THEN Sent(h, ResponseHelper_error(NoCookiesProvided, 400))
    ELSE IF ~NetlifyChecked[trim(OrEmpty(h.request.body.cookies))].valid
    THEN Sent(h, ResponseHelper_error(
                     MissingMessage(NetlifyChecked[trim(OrEmpty(h.request.body.cookies))].missing), 400))
    ELSE Awaiting(h, NewClient(inflight, NetlifyParse[trim(OrEmpty(h.request.body.cookies))]), FetchTimeout)

FetchStart(h, inflight) ==
    IF h.request.target = "server" THEN ServerFetchStart(h, inflight) ELSE NetlifyFetchStart(h, inflight)

\* either handler from the await on: the records are stamped at ms, the
\* recency cutoff is taken at `at`
FetchEnd(h, outcome, ms, at) ==
    IF h.request.target = "server"
    THEN Sent([h EXCEPT !.reads = <<ms, at>>], ServerJson(ServerFetchBody[outcome, ms, at]))
    ELSE Sent([h EXCEPT !.reads = <<ms, at>>],
              ResponseHelper_success(NetlifyFetchBody[outcome, ms, at] @@ [data_source |-> "iVAS SMS Portal"]))

InitConcurrent ==
    /\ handlers = << >>
    /\ portal = << >>
    /\ now = StartTime
    /\ request = Request("server", "fetch-data", "POST", Body(Absent, Absent, Absent))
    /\ pc = "received"
    /\ decodes = 0
    /\ held = NoCookies
    /\ client = NoClient
    /\ calls = << >>
    /\ transport = NoOutcome
    /\ probe = NoProbe
    /\ response = NoResponse
    /\ input = [kind |-> "text", s |-> ""]
    /\ decoder = "off"
    /\ result = NoResult
    /\ validation = NoValidation
    /\ records = << >>
    /\ view = NoView

\* the variables of the single request, which stand still here
lone == <<request, pc, decodes, held, client, calls, transport, probe, response>>

\* a request arrives while others are in flight
Accept(r) ==
    /\ Len(handlers) < MaxRequests
    /\ handlers' = Append(handlers, Handler(r))
    /\ portal' = Append(portal, NoOutcome)
    /\ UNCHANGED <<now, lone, dvars, rvars>>

\* the event loop runs invocation i up to its await or its early return
Begin(i) ==
    /\ handlers[i].pc = "received"
    /\ handlers' = [handlers EXCEPT ![i] = FetchStart(@, handlers)]
    /\ UNCHANGED <<portal, now, lone, dvars, rvars>>

\* the portal settles the call of invocation i and the event loop resumes it
Finish(i) ==
    /\ handlers[i].pc = "awaiting"
    /\ \E outcome \in ConcurrentOutcomes, elapsed \in 0..(StartTime + MaxElapsed - now) :
          /\ portal' = [portal EXCEPT ![i] = outcome]
          /\ now' = now + elapsed
          /\ handlers' = [handlers EXCEPT ![i] = FetchEnd(@, outcome, now, now + elapsed)]
    /\ UNCHANGED <<lone, dvars, rvars>>

NextConcurrent ==
    \/ \E r \in ConcurrentRequests : Accept(r)
    \/ \E i \in DOMAIN handlers : Begin(i)
    \/ \E i \in DOMAIN handlers : Finish(i)

SpecConcurrent == InitConcurrent /\ [][NextConcurrent]_vars

\* ------------------------------------------------------------------------
\* Properties
\* ------------------------------------------------------------------------

RequiredNames == {"cf_clearance", "XSRF-TOKEN", "ivas_sms_session"}

CanonicalSet == {"cf_clearance", "XSRF-TOKEN", "ivas_sms_session", "_ga", "_gid", "_fbp"}

\* the required names a set lacks: absent, or with an empty value
Lacking(set) == {name \in RequiredNames : name \notin DOMAIN set \/ set[name] = JStr("")}

\* the response is an error whose message starts with the prefix
IsErrorWith(r, prefix) ==
    /\ r.sent
    /\ "error" \in DOMAIN r.body
    /\ r.body.success = FALSE
    /\ startsWith(r.body.error, prefix)

\* C1: in a request of an operation that reaches the portal (probe, fetch,
\* stats), on either target, when the decoded and normalized set lacks a
\* required cookie no call to the portal is issued and the request ends with a
\* validation error.
C1_NoCallWithoutRequired ==
    (request.op \in PortalOperations /\ held.decoded /\ Lacking(held.v) # {})
        => /\ calls = << >>
           /\ (pc = "responded" => IsErrorWith(response, MissingPrefix))

\* C2: for every operation on either target, when the cookies field of the
\* request is absent, empty or only white space, nothing is decoded, no call
\* to the portal is issued and the request ends with the input error.
C2_EmptyCookiesNothingAttempted ==
    (request.method = "POST" /\ trim(OrEmpty(request.body.cookies)) = "")
        => /\ decodes = 0
           /\ calls = << >>
           /\ (pc = "responded" => IsErrorWith(response, NoCookiesProvided))

\* C3: parseCookieString returns a cookie map for every input string and
\* never throws, a malformed percent-escape in a value included.
C3_DecoderNeverThrows == decoder \in {"server", "netlify"} => ~result.threw

\* {name1: value1, name2: value2}
ExpectedPairs(in) == Put(Put(EmptyMap, in.n1, JStr(in.v1)), in.n2, JStr(in.v2))

\* C4: from a cookie string `name1=value1; name2=value2` with distinct
\* non-empty names and arbitrary values the decode stage recovers exactly the
\* map {name1: value1, name2: value2}.
C4_PairsRecoveredExactly ==
    (input.kind = "pairs" /\ decoder \in {"server", "netlify"})
        => ~result.threw /\ result.decoded = ExpectedPairs(input)

\* the map of the {name, value} items of a list, a later item replacing an
\* earlier one of the same name
RECURSIVE ExpectedItems(_, _, _)
ExpectedItems(items, k, map) ==
    IF k > Len(items) THEN map
    ELSE ExpectedItems(items, k + 1, Put(map, items[k][1], JStr(items[k][2])))

\* C5: the base64 text of a JSON array of {name, value} objects with
\* non-empty string names and values decodes to exactly the map of those
\* pairs, whatever the length of the base64 text and whether or not it ends
\* with '=' padding.
C5_Base64ArrayRecovered ==
    (input.kind = "array" /\ decoder \in {"server", "netlify"})
        => ~result.threw /\ result.decoded = ExpectedItems(input.items, 1, EmptyMap)

\* the aliases of a canonical name that the decoded map holds with a
\* non-empty value, as positions in the alias list
HeldAliases(raw, aliases) ==
    {k \in 1..Len(aliases) : aliases[k] \in DOMAIN raw /\ raw[aliases[k]] # JStr("")}

\* the canonical name has the value of the first alias held, and is absent
\* when none is held
ResolvedFrom(raw, set, canonical, aliases) ==
    IF HeldAliases(raw, aliases) = {} THEN canonical \notin DOMAIN set
    ELSE /\ canonical \in DOMAIN set
         /\ set[canonical] = raw[aliases[MinOrZero(HeldAliases(raw, aliases))]]

AliasExample == "cf-clearance=x; csrf_token=y; laravel_session=z"

CanonicalExample ==
    [name \in RequiredNames |->
        IF name = "cf_clearance" THEN JStr("x") ELSE IF name = "XSRF-TOKEN" THEN JStr("y") ELSE JStr("z")]

\* C6: on either target the set handed to validation holds, for each canonical
\* name, the value of the first alias in priority order that the decoded map
\* holds with a non-empty value; the map {cf-clearance: x, csrf_token: y,
\* laravel_session: z} becomes {cf_clearance: x, XSRF-TOKEN: y,
\* ivas_sms_session: z} and passes validation.
C6_AliasesResolved ==
    (decoder \in {"server", "netlify"} /\ ~result.threw)
        => /\ \A i \in 1..Len(cookieMapping) :
                 ResolvedFrom(result.decoded, result.cookies, cookieMapping[i][1], cookieMapping[i][2])
           /\ (input = [kind |-> "text", s |-> AliasExample]
                 => /\ result.cookies = CanonicalExample
                    /\ ("valid" \in DOMAIN validation => validation.valid))

ReportedNames(body) ==
    IF "cookies" \in DOMAIN body THEN DOMAIN body.cookies
    ELSE IF "parsed_cookies" \in DOMAIN body THEN body.parsed_cookies
    ELSE {}

\* C8: the mapping handed to the portal client and the mapping the
\* cookie-parse operation reports hold only keys of the canonical set.
C8_OnlyCanonicalKeys ==
    /\ client.built => DOMAIN client.cookies \subseteq CanonicalSet
    /\ (request.op = "parse-cookies" /\ request.method = "POST" /\ pc = "responded")
          => ReportedNames(response.body) \subseteq CanonicalSet

\* C9: every value of the cookie map the decoder produces is a string,
\* whatever the encoding of the input and the JSON type of its value fields.
C9_ValuesAreStrings ==
    decoder \in {"server", "netlify"}
        => \A name \in DOMAIN result.decoded : result.decoded[name].t = "string"

\* what the probe reported: reachable, status code
Reachable(p) == IF request.target = "server" THEN p[1] ELSE p.success

StatusCode(p) == IF request.target = "server" THEN p[2] ELSE p.status

\* the error message is reported on its own, apart from the status
ErrorApart(p, message) ==
    IF request.target = "server" THEN p[2] # JStr(message)
    ELSE "error" \in DOMAIN p /\ p.error = message

\* C10: the probe classifies every outcome of the transport: with a response,
\* reachable iff the status is 200 or 302 and the status code is that status;
\* with a failure (timeout, DNS, refused), reachable = false, status code 0 and
\* the error message apart from the status.
C10_ProbeClassifies ==
    (request.op = "test-connection" /\ transport.kind # "none")
        => IF transport.kind = "response"
           THEN /\ Reachable(probe) = (transport.status \in {200, 302})
                /\ StatusCode(probe) = Num(transport.status)
           ELSE /\ Reachable(probe) = FALSE
                /\ StatusCode(probe) = Num(0)
                /\ ErrorApart(probe, ErrorMessage(transport.failure, ProbeTimeout))

\* the operations that fetch the document
FetchOperations == {"fetch-data", "stats"}

\* the total a fetch-data or stats response reports
TotalOf(body) == IF "total" \in DOMAIN body THEN body.total ELSE body.stats.total

\* the request has been answered after the portal call came back
Answered(ops) == request.op \in ops /\ pc = "responded" /\ transport.kind # "none"

\* C11: the body reaches the extractor only when the portal status is exactly
\* 200; for any other status and for a transport failure the record list is
\* empty, and the data-fetch and stats operations answer success with total 0.
C11_OnlyStatus200Extracted ==
    Answered(FetchOperations)
        => /\ response.body.success = TRUE
           /\ (transport.kind = "failure" \/ transport.status # 200) => TotalOf(response.body) = 0

\* a status other than 200 came with a document that holds tracked rows, and
\* the request was answered with total 0
C11_RedirectWithRows ==
    /\ Answered(FetchOperations)
    /\ transport = Answer(302, LivePage)
    /\ response.body.success = TRUE
    /\ TotalOf(response.body) = 0

\* the records a fetch-data response lists
AllData == response.body.all_data

\* C12: a document whose only content is one table with the one row
\* [SID123, "code 4821", "Facebook Messenger", "United States"] yields exactly
\* one record, of service Facebook and country United States, on both targets.
C12_MessengerRowExtracted ==
    (Answered({"fetch-data"}) /\ transport = Answer(200, MessengerPage))
        => /\ Len(AllData) = 1
           /\ AllData[1].service = "Facebook"
           /\ AllData[1].country = "United States"

\* the row has a service cell, and it names none of the keyword sets
UntrackedRow(cells) == Len(cells) >= 3 /\ ~IsSocial(toLowerCase(trim(cells[3])))

\* the document is made of tables only, and every row of them is untracked
OnlyUntrackedRows(doc) ==
    /\ Len(doc) > 0
    /\ \A k \in DOMAIN doc :
          /\ doc[k].tag = "table"
          /\ Len(doc[k].rows) > 0
          /\ \A r \in DOMAIN doc[k].rows : UntrackedRow(doc[k].rows[r])

\* C13: a document whose table rows all have a service cell matching none of
\* the keyword sets yields zero records, whatever the other cells contain: a
\* dropped row does not come back as a record through another strategy.
C13_UntrackedRowsDropped ==
    (Answered({"fetch-data"}) /\ transport.kind = "response" /\ transport.status = 200
        /\ OnlyUntrackedRows(transport.data))
        => AllData = << >>

TrackedNames == {"Facebook", "Instagram", "WhatsApp"}

ServicesOf(items) == {items[i].service : i \in DOMAIN items}

\* the names of a list of (name, count) pairs
NamesOf(pairs) == {pairs[i][1] : i \in DOMAIN pairs}

\* the services of the records either extractor emits for the portal's answer
EmittedServices ==
    IF transport.kind = "response"
    THEN ServicesOf(parseSmsData(transport.data, now)) \cup ServicesOf(parseSMSData(transport.data, now))
    ELSE {}

\* C14: every record the extractor emits, by the structural or the textual
\* strategy, and so every record of all_data and recent_data and every key of
\* by_service and top_services, has service Facebook, Instagram or WhatsApp.
C14_ServiceIsTracked ==
    /\ EmittedServices \subseteq TrackedNames
    /\ Answered({"fetch-data"})
          => (ServicesOf(AllData) \cup ServicesOf(response.body.recent_data)
                \cup NamesOf(response.body.top_services)) \subseteq TrackedNames
    /\ Answered({"stats"}) => NamesOf(response.body.stats.by_service) \subseteq TrackedNames

\* a fetch-data response lists records of all three platforms, the third from
\* a row whose service cell was written "Whatsapp Business"
C14_AllThreeListed ==
    /\ Answered({"fetch-data"})
    /\ transport = Answer(200, LivePage)
    /\ ServicesOf(AllData) = TrackedNames
    /\ NamesOf(response.body.top_services) = TrackedNames

\* round(count / total * 100): the whole number nearest to the share, the
\* upper one of two equally near, and 0 when total is 0
RoundedShare(count, total) ==
    IF total = 0 THEN 0
    ELSE CHOOSE p \in 0..100 : 2 * p * total - total <= 200 * count /\ 200 * count < 2 * p * total + total

\* every bucket of a distribution carries the rounded share of its count
SharesRounded(distribution, total) ==
    \A i \in DOMAIN distribution :
        distribution[i][2].percentage = RoundedShare(distribution[i][2].count, total)

\* the bucket of the name in a distribution has the percentage
HasShare(distribution, name, percentage) ==
    \E i \in DOMAIN distribution : distribution[i][1] = name /\ distribution[i][2].percentage = percentage

Unfiltered == request.body.service = Absent /\ request.body.country = Absent

\* C15: the stats operation of both targets reports for every service and
\* country bucket percentage = round(count / total * 100), and 0 when total
\* is 0; over ten records, six of Facebook and four of Instagram,
\* service_distribution.Facebook.percentage is 60.
C15_PercentagesReported ==
    Answered({"stats"})
        => /\ {"service_distribution", "country_distribution"} \subseteq DOMAIN response.body.stats
           /\ SharesRounded(response.body.stats.service_distribution, response.body.stats.total)
           /\ SharesRounded(response.body.stats.country_distribution, response.body.stats.total)
           /\ (transport = Answer(200, TenPage) /\ Unfiltered)
                 => /\ response.body.stats.total = 10
                    /\ HasShare(response.body.stats.service_distribution, "Facebook", 60)

\* strictly after the clock minus five minutes
AfterCutoff(timestamp) == IsInstant(timestamp) /\ DateParse(timestamp) > now - RecentWindow

\* how many of the records satisfy the test on their timestamp
CountOf(Test(_)) == Cardinality({i \in DOMAIN records : Test(records[i].timestamp)})

RecentInFetchView(timestamp) == AfterCutoff(timestamp)

RecentInStatsView(timestamp) == ~IsInstant(timestamp) \/ AfterCutoff(timestamp)

\* the count of recent records a stats answer carries
StatsRecent(body) == IF "recent" \in DOMAIN body THEN body.recent ELSE body.stats.recent

\* C16: a record whose timestamp cannot be parsed as a date is counted as not
\* recent by the data-fetch view and as recent by the stats view; a record
\* with a parseable timestamp is recent iff the timestamp is strictly after
\* now minus 5 minutes.
C16_RecencyByView ==
    /\ view.of = "fetch-data" => view.body.recent = CountOf(RecentInFetchView)
    /\ view.of = "stats"
          => /\ "recent" \in (DOMAIN view.body \cup DOMAIN view.body.stats)
             /\ StatsRecent(view.body) = CountOf(RecentInStatsView)

ServiceField(item) == item.service

CountryField(item) == item.country

\* where the name is first met in the record list
FirstSeen(Field(_), name) ==
    CHOOSE i \in DOMAIN AllData :
        Field(AllData[i]) = name /\ \A j \in 1..(i - 1) : Field(AllData[j]) # name

\* the pairs are in non-increasing order of count, equal counts in the order
\* in which their names were first met
Ranked(pairs, Field(_)) ==
    \A i, j \in DOMAIN pairs :
        i < j => \/ pairs[i][2] > pairs[j][2]
                 \/ /\ pairs[i][2] = pairs[j][2]
                    /\ FirstSeen(Field, pairs[i][1]) < FirstSeen(Field, pairs[j][1])

TopLimit == 10

\* C17: top_services and top_countries list at most 10 (name, count) pairs in
\* non-increasing order of count, names of equal counts in the order in which
\* they were first met in the record list, for every country string,
\* including one whose text is a decimal number.
C17_TopListsRanked ==
    Answered({"fetch-data"})
        => /\ Len(response.body.top_services) <= TopLimit
           /\ Len(response.body.top_countries) <= TopLimit
           /\ Ranked(response.body.top_services, ServiceField)
           /\ Ranked(response.body.top_countries, CountryField)

\* C19: no retries: a request issues at most one outbound call to the portal,
\* whatever the call returns (any status, a transport failure, a timeout);
\* once the call has come back the request is answered and no call follows.
C19_AtMostOneCall ==
    /\ Len(calls) <= 1
    /\ transport.kind # "none" => (pc = "responded" /\ Len(calls) = 1)

\* the one call timed out and the request was answered without another call
C19_AnsweredAfterTimeout ==
    /\ pc = "responded"
    /\ transport = Failure("timeout")
    /\ Len(calls) = 1

\* C20: every request eventually terminates with exactly one response, for
\* every cookie input and every portal behaviour: any status, any body, a
\* transport failure, or no answer, which the timeout turns into a failure.
C20_EventuallyOneResponse ==
    /\ <>(pc = "responded" /\ response.sent)
    /\ [][response.sent => response' = response]_vars

\* the portal gave no answer to a fetch, and the request was answered
C20_FetchAnsweredAfterTimeout ==
    /\ request.op = "fetch-data"
    /\ request.target = "netlify"
    /\ transport = Failure("timeout")
    /\ calls # << >>
    /\ calls[1].timeout = FetchTimeout
    /\ response.sent

\* the invocation of a request that has the process to itself
Alone(r) == FetchStart(Handler(r), << >>)

\* what a request handled alone answers, given the portal's answer to its own
\* call and its own two readings of the clock
AloneResponse(r, outcome, reads) ==
    IF Alone(r).pc = "responded"
    THEN Alone(r).response
    ELSE FetchEnd(Alone(r), outcome, reads[1], reads[2]).response

\* C18: for any interleaving of concurrently handled requests, the call each
\* request issues carries its own cookies and the response to each request is
\* the one the request would get when handled alone with the same answer of the
\* portal to its own call: nothing of another request influences it.
C18_RequestsIsolated ==
    \A i \in DOMAIN handlers :
        /\ handlers[i].pc # "received" => handlers[i].calls = Alone(handlers[i].request).calls
        /\ handlers[i].pc = "responded" =>
               handlers[i].response = AloneResponse(handlers[i].request, portal[i], handlers[i].reads)

\* two requests with different cookies were in flight together, each issued
\* its call, and the portal answered them differently
C18_TwoAnsweredDifferently ==
    /\ Len(handlers) = 2
    /\ handlers[1].pc = "responded" /\ handlers[2].pc = "responded"
    /\ Len(handlers[1].calls) = 1 /\ Len(handlers[2].calls) = 1
    /\ handlers[1].calls[1].Cookie # handlers[2].calls[1].Cookie
    /\ portal[1] = Answer(200, TiePage) /\ portal[2] = Answer(200, LivePage)
    /\ handlers[1].response # handlers[2].response
    /\ handlers[1].reads # handlers[2].reads

\* the structural strategy over the tables of a document
TableRecords(doc, ms) == TableData(AllRows(doc, 1), 1, ms)

\* the textual strategy over the lines of the visible text of a document
TextRecords(doc, ms) == TextData(split(BodyText(doc), "\n"), 1, ms)

\* the two strategies applied in order, per document and instant of extraction
StrategiesInOrder ==
    [doc \in Documents, ms \in Clock |->
        IF Len(TableRecords(doc, ms)) > 0 THEN TableRecords(doc, ms) ELSE TextRecords(doc, ms)]

\* C21: on both targets the extractor gives exactly the records of the
\* structural strategy when that strategy yields at least one, and the records
\* the textual line scan derives from the visible text when, and only when,
\* the structural strategy yields none.
C21_StrategiesInOrder ==
    (Answered({"fetch-data"}) /\ transport.kind = "response" /\ transport.status = 200)
        => \E ms \in Clock : AllData = StrategiesInOrder[transport.data, ms]

\* recentData.slice(0, 20)
RecentLimit == 20

\* the first n items of a list, all of them when it has fewer
Prefix(items, n) == SubSeq(items, 1, IF Len(items) < n THEN Len(items) ELSE n)

\* C22: in every successful data-fetch response recent equals total and
\* recent_data is the first 20 items of all_data: the records are stamped
\* during extraction inside the same request, so none of them is older than
\* the recency window when the window is evaluated.
C22_RecentEqualsTotal ==
    (Answered({"fetch-data"}) /\ response.body.success = TRUE)
        => /\ response.body.recent = response.body.total
           /\ response.body.recent_data = Prefix(AllData, RecentLimit)

\* a document of more than 20 tracked rows was answered, the window being
\* evaluated later than the records were stamped
C22_ManyRecent ==
    /\ Answered({"fetch-data"})
    /\ transport = Answer(200, ManyPage)
    /\ response.body.total = ManyRows
    /\ response.body.recent = ManyRows
    /\ Len(response.body.recent_data) = RecentLimit
    /\ DateParse(response.body.timestamp) > DateParse(AllData[1].timestamp)

=============================================================================
